---- MODULE Spec2Model ----
(***************************************************************************)
(* Agent lifecycle and status synchronisation engine of opus-orchestra.    *)
(*                                                                         *)
(* Spec        : AgentStatusTracker (core) driven by the terminal          *)
(*               dashboard hook useAgents (approve / reject / polling      *)
(*               effect) and by hook processes writing signal files.       *)
(* SpecFactory : one AgentFactory.createAgents call at a time with the     *)
(*               faults of its steps, and agent deletion.                  *)
(* SpecInterleaved : createAgents calls resumed in any order at their      *)
(*               awaits, and agent deletion.                               *)
(*                                                                         *)
(* Times are in milliseconds.                                              *)
(***************************************************************************)
EXTENDS Integers, Sequences, FiniteSets, TLC

\* ------------------------------------------------------------------------
\* Bounds of the model
\* ------------------------------------------------------------------------
MaxTime == 2000
MaxTimeouts == 2
AgentIds == {1}
AdvanceChoices == {500, 1000}
Tools == {"Edit"}
Inputs == {"npm install"}

\* ------------------------------------------------------------------------
\* Types of packages/core/src/types/agent
\* ------------------------------------------------------------------------
AgentStatus == {"idle", "working", "waiting-input", "waiting-approval"}

Null == "null"

Loops == {"status", "todo", "diff"}

DEFAULT_POLLING_CONFIG ==
    [statusInterval |-> 1000, todoInterval |-> 2000, diffInterval |-> 60000]

\* delay of the deferred first diff poll, setTimeout(pollDiff, 1000)
DiffInitialDelay == 1000

\* the configuration the dashboard hook passes to startPolling
HookPollingConfig ==
    [statusInterval |-> 1000, todoInterval |-> 2000, diffInterval |-> 60000]

\* Partial<PollingConfig> values a caller passes; a key that is absent from
\* the domain is not overridden
ConfigOverrides ==
    { [k \in {} |-> 0],
      [k \in {"statusInterval", "todoInterval"} |-> IF k = "statusInterval" THEN 0 ELSE 500],
      [k \in {"todoInterval", "diffInterval"} |-> 0],
      [k \in {"statusInterval", "diffInterval"} |-> IF k = "statusInterval" THEN 500 ELSE 2000] }

\* the override that leaves the status loop alone
StatusOnlyConfig == [k \in {"todoInterval", "diffInterval"} |-> 0]

ConfigKeys == {"statusInterval", "todoInterval", "diffInterval"}

\* const pollingConfig = { ...DEFAULT_POLLING_CONFIG, ...config }
MergeConfig(config) ==
    [k \in ConfigKeys |->
        IF k \in DOMAIN config THEN config[k] ELSE DEFAULT_POLLING_CONFIG[k]]

VARIABLES
    agents,            \* React state of useAgents: id -> TerminalAgent
    agentsMap,         \* agentsMapRef.current: id -> core Agent handed to the tracker
    effectDirty,       \* the polling effect must re-run (its [agents] dependency changed)
    files,             \* latest signal file of each agent's status directory
    now,               \* wall clock
    _isPolling,        \* AgentStatusTracker._isPolling
    pollingIntervals,  \* AgentStatusTracker.pollingIntervals: loop -> interval timer
    timeouts,          \* pending setTimeout(pollDiff, 1000) timers, by due time
    todoService,       \* whether a todo service was passed to the constructor
    startedAt,         \* history: time of the last start of polling
    calls,             \* history: invocations of each loop's callback since the last start
    deferredCalls,     \* history: those of calls["diff"] made by a setTimeout timer
    ticked,            \* history: the last step ran a status reconciliation
    response,          \* history: id -> the approval given after the file was written
    touched            \* history: ids with a local command since their last reconciliation

trackerVars == <<agents, agentsMap, effectDirty, files, now, _isPolling,
                 pollingIntervals, timeouts, todoService, startedAt, calls,
                 deferredCalls, ticked, response, touched>>

VARIABLES
    worktrees,         \* names whose worktree directory exists on disk
    branches,          \* names whose branch claude-<name> exists
    metadata,          \* name -> the per-worktree agent metadata file
    uuids,             \* number of session identifiers randomUUID has handed out
    batches            \* the createAgents calls in progress, by call

factoryVars == <<worktrees, branches, metadata, uuids, batches>>

VARIABLES
    fwOptions,              \* FileWatcher: the readonly fields the constructor resolved
    _isRunning,             \* FileWatcher._isRunning
    watcher,                \* FileWatcher.watcher is not null
    pollIntervalId,         \* FileWatcher.pollIntervalId: the backup poll timer
    healthCheckIntervalId,  \* FileWatcher.healthCheckIntervalId
    debounceTimeout,        \* FileWatcher.debounceTimeout
    pendingEvents,          \* FileWatcher.pendingEvents: path -> queued event
    lastChokidarEventTime,  \* FileWatcher.lastChokidarEventTime
    isWatcherHealthy,       \* FileWatcher.isWatcherHealthy
    starting,               \* start() calls suspended in startChokidarWatcher
    orphans,                \* timers and watchers whose handle the object no longer holds
    clock,                  \* Date.now() of the watcher's process
    delivered,              \* history: onEvent callbacks of the last step, by type
    pollStartedAt,          \* history: when startBackupPolling last ran
    pollCalls               \* history: doPoll calls of the timer in pollIntervalId

watcherVars == <<fwOptions, _isRunning, watcher, pollIntervalId, healthCheckIntervalId,
                 debounceTimeout, pendingEvents, lastChokidarEventTime,
                 isWatcherHealthy, starting, orphans, clock, delivered,
                 pollStartedAt, pollCalls>>

VARIABLES
    tmuxAgent,         \* the persisted agent whose terminal session is opened
    tmuxSessions,      \* the session names the tmux server holds
    callers,           \* the processes opening the agent's session, by caller
    sessionsCreated,   \* history: new-session commands that created a session
    sessionsKilled     \* history: kill-session commands that ended a session

tmuxVars == <<tmuxAgent, tmuxSessions, callers, sessionsCreated, sessionsKilled>>

VARIABLES
    storage            \* the central storage file of the repository

storageVars == <<storage>>

VARIABLES
    gitCall            \* the GitService or command runner call in progress, or the last one

gitVars == <<gitCall>>

VARIABLES
    diffAgents,        \* the agents map handed to refreshDiffStats: id -> agent.diffStats
    worktreeDiff,      \* what `git diff <base>...HEAD` of each agent's worktree amounts to
    diffResults,       \* history: id -> how the diff of the last step settled and what it gave
    diffEvents         \* history: ids the last step emitted agent:diffStatsChanged for

diffVars == <<diffAgents, worktreeDiff, diffResults, diffEvents>>

VARIABLES
    tickAgents,        \* the agents map handed to refreshStatus: id -> core Agent
    tickFiles,         \* latest signal file of each of those agents
    tickReport,        \* history: what the status tick of the last step did
    crashed            \* an exception escaped from the status timer's callback

tickVars == <<tickAgents, tickFiles, tickReport, crashed>>

VARIABLES
    lastDeleted        \* history: the agent the last recorded deletion removed

traceVars == <<lastDeleted>>

VARIABLES
    diffCalls          \* the getDiffStatsAsync calls in progress, by caller and agent

overlapVars == <<diffCalls>>

\* what the operations of one component leave alone
notTracker == <<factoryVars, watcherVars, tmuxVars, storageVars, gitVars, diffVars, tickVars,
                traceVars, overlapVars>>
notFactory == <<trackerVars, watcherVars, tmuxVars, storageVars, gitVars, diffVars, tickVars,
                traceVars, overlapVars>>
notWatcher == <<trackerVars, factoryVars, tmuxVars, storageVars, gitVars, diffVars, tickVars,
                traceVars, overlapVars>>
notTmux == <<trackerVars, factoryVars, watcherVars, storageVars, gitVars, diffVars, tickVars,
             traceVars, overlapVars>>
notStorage == <<trackerVars, factoryVars, watcherVars, tmuxVars, gitVars, diffVars, tickVars,
                traceVars, overlapVars>>
notGit == <<trackerVars, watcherVars, tmuxVars, storageVars, diffVars, tickVars, uuids,
            batches, traceVars, overlapVars>>
notDiff == <<trackerVars, factoryVars, watcherVars, tmuxVars, storageVars, gitVars, tickVars,
             traceVars, overlapVars>>
notTick == <<trackerVars, factoryVars, watcherVars, tmuxVars, storageVars, gitVars, diffVars,
             traceVars, overlapVars>>
notFactoryNorTrace == <<trackerVars, watcherVars, tmuxVars, storageVars, gitVars, diffVars,
                        tickVars, overlapVars>>
notDiffNorOverlap == <<trackerVars, factoryVars, watcherVars, tmuxVars, storageVars, gitVars,
                       tickVars, traceVars>>

vars == <<trackerVars, factoryVars, watcherVars, tmuxVars, storageVars, gitVars, diffVars,
          tickVars, traceVars, overlapVars>>

NoTimer == [active |-> FALSE, period |-> 0, due |-> 0]

\* fresh is history: the file was written with an mtime later than lastInteractionTime
NoFile ==
    [kind |-> "none", status |-> Null, tool |-> Null, input |-> Null, mtime |-> 0,
     fresh |-> FALSE]

NoResponse == [given |-> FALSE, previousStatus |-> Null]

\* bare status tokens a hook writes
TokenStatuses == {"idle", "working", "waiting-input"}

\* contents a hook process can leave in a signal file
SignalContents ==
    [kind : {"token"}, status : TokenStatuses, tool : {Null}, input : {Null}]
      \cup [kind : {"tool"}, status : {Null}, tool : Tools, input : Inputs]
      \cup [kind : {"garbage"}, status : {Null}, tool : {Null}, input : {Null}]

\* ------------------------------------------------------------------------
\* Status Parser (StatusService.parseHookData / checkStatus)
\* ------------------------------------------------------------------------
\* human-readable description of a tool payload: names the tool and its input
describeApproval(tool, input) == <<tool, input>>

\* a null pendingApproval
NoApproval == << >>

Contains(description, part) ==
    \E i \in 1..Len(description) : description[i] = part

\* a null ParsedStatus
NoParsedStatus ==
    [found |-> FALSE, status |-> Null, pendingApproval |-> NoApproval, fileTimestamp |-> 0]

parseHookData(file) ==
    CASE file.kind = "token" ->
            [found |-> TRUE, status |-> file.status, pendingApproval |-> NoApproval,
             fileTimestamp |-> 0]
      [] file.kind = "tool" ->
            [found |-> TRUE, status |-> "waiting-approval",
             pendingApproval |-> describeApproval(file.tool, file.input),
             fileTimestamp |-> 0]
      [] OTHER -> NoParsedStatus

\* ParsedStatus | null of the latest signal file, with the file's mtime
checkStatus(file) ==
    IF file.kind = "none" \/ ~parseHookData(file).found
    THEN NoParsedStatus
    ELSE [parseHookData(file) EXCEPT !.fileTimestamp = file.mtime]

\* ------------------------------------------------------------------------
\* AgentStatusTracker: status reconciliation
\* ------------------------------------------------------------------------
STATUS_ICONS ==
    [s \in AgentStatus |->
        CASE s = "working" -> "sync~spin"
          [] s = "waiting-input" -> "bell"
          [] s = "waiting-approval" -> "question"
          [] OTHER -> "circle-outline"]

\* an icon taken from the table alone, whatever the session handle
updateAgentIcon_IgnoresTerminal(agent) ==
    [agent EXCEPT !.statusIcon = STATUS_ICONS[agent.status]]

updateAgentIcon(agent) ==
    IF agent.status = "idle"
    THEN [agent EXCEPT !.statusIcon =
              IF agent.terminal THEN "circle-filled" ELSE "circle-outline"]
    ELSE [agent EXCEPT !.statusIcon = STATUS_ICONS[agent.status]]

\* checkHookStatus that takes the pending approval of the signal but leaves
\* the status as it was
checkHookStatus_KeepsStatus(agent, parsedStatus) ==
    IF parsedStatus.found
    THEN [agent EXCEPT !.pendingApproval = parsedStatus.pendingApproval]
    ELSE agent

\* the agent after checkHookStatus; parsedStatus is checkStatus' result
checkHookStatus(agent, parsedStatus) ==
    IF parsedStatus.found
    THEN [agent EXCEPT !.status = parsedStatus.status,
                       !.pendingApproval = parsedStatus.pendingApproval]
    ELSE agent

\* an emission for every parsed signal, whether it changes the status or not
statusChangedEmitted_WheneverParsed(agent, parsedStatus) == parsedStatus.found

\* events checkHookStatus emits for the agent
statusChangedEmitted(agent, parsedStatus) ==
    /\ parsedStatus.found
    /\ agent.status # parsedStatus.status

\* the previousStatus of the agent:statusChanged payload: agent.status as
\* read before the assignment
previousStatus(agent) == agent.status

\* an emission for every signal that carries an approval
approvalPendingEmitted_WheneverPending(agent, parsedStatus) ==
    /\ parsedStatus.found
    /\ parsedStatus.pendingApproval # NoApproval

approvalPendingEmitted(agent, parsedStatus) ==
    /\ parsedStatus.found
    /\ agent.pendingApproval = NoApproval
    /\ parsedStatus.pendingApproval # NoApproval

\* refreshStatus that refreshes the icons without reading the signal files
refreshStatus_IconsOnly(map) ==
    [id \in DOMAIN map |-> updateAgentIcon(map[id])]

\* the agents map after refreshStatus
refreshStatus(map) ==
    [id \in DOMAIN map |->
        updateAgentIcon(checkHookStatus(map[id], checkStatus(files[id])))]

\* ------------------------------------------------------------------------
\* useAgents: the accessor handed to startPolling and the event handlers
\* ------------------------------------------------------------------------
\* updateAgentsMap: TerminalAgent -> core Agent, rebuilt on every getAgents()
updateAgentsMap(state) ==
    [id \in DOMAIN state |->
        [status |-> state[id].status,
         statusIcon |-> "circle-outline",
         pendingApproval |-> state[id].pendingApproval,
         lastInteractionTime |-> state[id].lastInteractionTime,
         terminal |-> FALSE]]

\* a handler that copies the pending approval but leaves the status
handleStatusChanged_ApprovalOnly(state, before, after) ==
    [id \in DOMAIN state |->
        IF before[id].status # after[id].status
        THEN [state[id] EXCEPT !.pendingApproval = after[id].pendingApproval,
                               !.lastInteractionTime = now]
        ELSE state[id]]

\* handleStatusChanged applied for every agent:statusChanged event of a tick
handleStatusChanged(state, before, after) ==
    [id \in DOMAIN state |->
        IF before[id].status # after[id].status
        THEN [state[id] EXCEPT !.status = after[id].status,
                               !.pendingApproval = after[id].pendingApproval,
                               !.lastInteractionTime = now]
        ELSE state[id]]

\* pollStatus: agents = getAgents(); if (agents.size > 0) refreshStatus(agents)
pollStatusMap(state) ==
    IF DOMAIN state # {}
    THEN refreshStatus(updateAgentsMap(state))
    ELSE updateAgentsMap(state)

pollStatusState(state) ==
    handleStatusChanged(state, updateAgentsMap(state), pollStatusMap(state))

\* ------------------------------------------------------------------------
\* Initial state: the dashboard has loaded its agents, nothing is polling yet
\* and the polling effect is about to run for the first time
\* ------------------------------------------------------------------------
persistedToTerminalAgent ==
    [status |-> "idle", pendingApproval |-> NoApproval, lastInteractionTime |-> 0]

InitTracker ==
    /\ agents = [id \in AgentIds |-> persistedToTerminalAgent]
    /\ agentsMap = << >>
    /\ effectDirty = TRUE
    /\ files = [id \in AgentIds |-> NoFile]
    /\ now = 0
    /\ _isPolling = FALSE
    /\ pollingIntervals = [l \in Loops |-> NoTimer]
    /\ timeouts = << >>
    /\ todoService \in BOOLEAN
    /\ startedAt = 0
    /\ calls = [l \in Loops |-> 0]
    /\ deferredCalls = 0
    /\ ticked = FALSE
    /\ response = [id \in AgentIds |-> NoResponse]
    /\ touched = {}

\* ------------------------------------------------------------------------
\* AgentStatusTracker: polling lifecycle
\* ------------------------------------------------------------------------
setInterval(period) == [active |-> TRUE, period |-> period, due |-> now + period]

\* a status callback: the accessor, the reconciliation and the event handlers
pollStatus ==
    /\ agentsMap' = pollStatusMap(agents)
    /\ agents' = pollStatusState(agents)
    /\ ticked' = (DOMAIN agents # {})
    /\ touched' = IF DOMAIN agents # {} THEN {} ELSE touched
    /\ effectDirty' = (\E id \in DOMAIN agents :
                          updateAgentsMap(agents)[id].status # pollStatusMap(agents)[id].status)

noPollStatus ==
    /\ UNCHANGED <<agents, agentsMap, touched>>
    /\ ticked' = FALSE
    /\ effectDirty' = FALSE

\* the loops startPolling starts for a configuration
loopsOn(pollingConfig) ==
    {l \in Loops :
        CASE l = "status" -> pollingConfig.statusInterval > 0
          [] l = "todo" -> pollingConfig.todoInterval > 0 /\ todoService
          [] OTHER -> pollingConfig.diffInterval > 0}

\* startPolling that also polls the diff at once
initialPolls_WithDiff(pollingConfig) == loopsOn(pollingConfig)

\* the loops whose callback startPolling calls itself ("Initial poll"); the
\* first diff poll is left to a timeout
initialPolls(pollingConfig) == loopsOn(pollingConfig) \ {"diff"}

\* startPolling past its _isPolling guard; intervals is pollingIntervals then
startTimers(config, intervals) ==
    LET pollingConfig == MergeConfig(config)
        statusOn == "status" \in loopsOn(pollingConfig)
        todoOn == "todo" \in loopsOn(pollingConfig)
        diffOn == "diff" \in loopsOn(pollingConfig)
    IN  /\ diffOn => Len(timeouts) < MaxTimeouts
        /\ _isPolling' = TRUE
        /\ pollingIntervals' =
              [l \in Loops |->
                  CASE l = "status" /\ statusOn -> setInterval(pollingConfig.statusInterval)
                    [] l = "todo" /\ todoOn -> setInterval(pollingConfig.todoInterval)
                    [] l = "diff" /\ diffOn -> setInterval(pollingConfig.diffInterval)
                    [] OTHER -> intervals[l]]
        /\ timeouts' = IF diffOn THEN Append(timeouts, now + DiffInitialDelay)
                                 ELSE timeouts
        /\ IF "status" \in initialPolls(pollingConfig) THEN pollStatus ELSE noPollStatus
        /\ calls' = [l \in Loops |-> IF l \in initialPolls(pollingConfig) THEN 1 ELSE 0]
        /\ deferredCalls' = 0
        /\ startedAt' = now
        /\ UNCHANGED <<files, now, todoService, response>>

\* startPolling without the _isPolling guard
startPolling_Unguarded(config) ==
    /\ UNCHANGED notTracker
    /\ ~effectDirty
    /\ startTimers(config, pollingIntervals)

startPolling(config) ==
    /\ UNCHANGED notTracker
    /\ ~effectDirty
    /\ IF _isPolling
       THEN UNCHANGED trackerVars
       ELSE startTimers(config, pollingIntervals)

stopPolling ==
    /\ UNCHANGED notTracker
    /\ ~effectDirty
    /\ pollingIntervals' = [l \in Loops |-> NoTimer]
    /\ _isPolling' = FALSE
    /\ ticked' = FALSE
    /\ UNCHANGED <<agents, agentsMap, effectDirty, files, now, timeouts,
                   todoService, startedAt, calls, deferredCalls, response, touched>>

\* the polling effect of useAgents re-runs: cleanup (stopPolling), then setup
pollingEffect ==
    /\ UNCHANGED notTracker
    /\ effectDirty
    /\ startTimers(HookPollingConfig, [l \in Loops |-> NoTimer])

\* ------------------------------------------------------------------------
\* Timers
\* ------------------------------------------------------------------------
rearm(l) ==
    [pollingIntervals EXCEPT ![l].due = pollingIntervals[l].due + pollingIntervals[l].period]

due(l) == pollingIntervals[l].active /\ pollingIntervals[l].due <= now

statusTimer ==
    /\ UNCHANGED notTracker
    /\ ~effectDirty
    /\ due("status")
    /\ pollStatus
    /\ pollingIntervals' = rearm("status")
    /\ calls' = [calls EXCEPT !["status"] = calls["status"] + 1]
    /\ UNCHANGED <<files, now, _isPolling, timeouts, todoService, startedAt,
                   deferredCalls, response>>

todoTimer ==
    /\ UNCHANGED notTracker
    /\ ~effectDirty
    /\ due("todo")
    /\ pollingIntervals' = rearm("todo")
    /\ calls' = [calls EXCEPT !["todo"] = calls["todo"] + 1]
    /\ ticked' = FALSE
    /\ UNCHANGED <<agents, agentsMap, effectDirty, files, now, _isPolling, timeouts,
                   todoService, startedAt, deferredCalls, response, touched>>

diffTimer ==
    /\ UNCHANGED notTracker
    /\ ~effectDirty
    /\ due("diff")
    /\ pollingIntervals' = rearm("diff")
    /\ calls' = [calls EXCEPT !["diff"] = calls["diff"] + 1]
    /\ ticked' = FALSE
    /\ UNCHANGED <<agents, agentsMap, effectDirty, files, now, _isPolling, timeouts,
                   todoService, startedAt, deferredCalls, response, touched>>

RemoveAt(seq, i) == SubSeq(seq, 1, i - 1) \o SubSeq(seq, i + 1, Len(seq))

\* a setTimeout(pollDiff, 1000) timer fires
diffTimeout ==
    /\ UNCHANGED notTracker
    /\ ~effectDirty
    /\ \E i \in 1..Len(timeouts) :
          /\ timeouts[i] <= now
          /\ timeouts' = RemoveAt(timeouts, i)
    /\ calls' = [calls EXCEPT !["diff"] = calls["diff"] + 1]
    /\ deferredCalls' = deferredCalls + 1
    /\ ticked' = FALSE
    /\ UNCHANGED <<agents, agentsMap, effectDirty, files, now, _isPolling,
                   pollingIntervals, todoService, startedAt, response, touched>>

\* time passes; a timer fires when it is due, so time never passes one
Advance(d) ==
    /\ UNCHANGED notTracker
    /\ ~effectDirty
    /\ now + d <= MaxTime
    /\ \A l \in Loops : pollingIntervals[l].active => pollingIntervals[l].due >= now + d
    /\ \A i \in 1..Len(timeouts) : timeouts[i] >= now + d
    /\ now' = now + d
    /\ ticked' = FALSE
    /\ UNCHANGED <<agents, agentsMap, effectDirty, files, _isPolling, pollingIntervals,
                   timeouts, todoService, startedAt, calls, deferredCalls, response,
                   touched>>

\* ------------------------------------------------------------------------
\* The hook process of an agent writes its signal file
\* ------------------------------------------------------------------------
writeSignal(id, content) ==
    /\ UNCHANGED notTracker
    /\ id \in DOMAIN agents
    /\ files' = [files EXCEPT ![id] =
                    [kind |-> content.kind, status |-> content.status,
                     tool |-> content.tool, input |-> content.input, mtime |-> now,
                     fresh |-> now > agents[id].lastInteractionTime]]
    /\ response' = [response EXCEPT ![id] = NoResponse]
    /\ ticked' = FALSE
    /\ UNCHANGED <<agents, agentsMap, effectDirty, now, _isPolling, pollingIntervals,
                   timeouts, todoService, startedAt, calls, deferredCalls, touched>>

\* ------------------------------------------------------------------------
\* useAgents: local commands of the dashboard user
\* ------------------------------------------------------------------------
approveAgent(agentId, sent) ==
    /\ UNCHANGED notTracker
    /\ ~effectDirty
    /\ agentId \in DOMAIN agents
    /\ ticked' = FALSE
    /\ IF agents[agentId].pendingApproval = NoApproval \/ ~sent
       THEN UNCHANGED <<agents, effectDirty, response, touched>>
       ELSE /\ agents' = [agents EXCEPT ![agentId].pendingApproval = NoApproval,
                                        ![agentId].status = "working"]
            /\ effectDirty' = TRUE
            /\ response' = [response EXCEPT ![agentId] =
                               [given |-> TRUE, previousStatus |-> agents[agentId].status]]
            /\ touched' = touched \cup {agentId}
    /\ UNCHANGED <<agentsMap, files, now, _isPolling, pollingIntervals, timeouts,
                   todoService, startedAt, calls, deferredCalls>>

rejectAgent(agentId, sent) ==
    /\ UNCHANGED notTracker
    /\ ~effectDirty
    /\ agentId \in DOMAIN agents
    /\ ticked' = FALSE
    /\ IF agents[agentId].pendingApproval = NoApproval \/ ~sent
       THEN UNCHANGED <<agents, effectDirty, touched>>
       ELSE /\ agents' = [agents EXCEPT ![agentId].pendingApproval = NoApproval,
                                        ![agentId].status = "idle"]
            /\ effectDirty' = TRUE
            /\ touched' = touched \cup {agentId}
    /\ UNCHANGED <<agentsMap, files, now, _isPolling, pollingIntervals, timeouts,
                   todoService, startedAt, calls, deferredCalls, response>>

deleteAgent(agentId, removed) ==
    /\ UNCHANGED notTracker
    /\ ~effectDirty
    /\ agentId \in DOMAIN agents
    /\ ticked' = FALSE
    /\ IF ~removed
       THEN UNCHANGED <<agents, effectDirty, files, response, touched>>
       ELSE /\ agents' = [id \in DOMAIN agents \ {agentId} |-> agents[id]]
            /\ files' = [files EXCEPT ![agentId] = NoFile]
            /\ effectDirty' = TRUE
            /\ response' = [response EXCEPT ![agentId] = NoResponse]
            /\ touched' = touched \ {agentId}
    /\ UNCHANGED <<agentsMap, now, _isPolling, pollingIntervals, timeouts,
                   todoService, startedAt, calls, deferredCalls>>

\* ========================================================================
\* AgentFactory
\* ========================================================================
MaxCount == 3
MaxUuids == 4
Batches == {1, 2}
NamePool == <<"alpha", "bravo", "charlie">>
Names == {NamePool[i] : i \in 1..Len(NamePool)}

\* what `git branch --show-current` printed, or that execSync threw
BranchOutputs == {"main", "", "throw"}

\* AgentCreationOptions: containerConfigName (Null when undefined) and
\* whether an onCreateContainer callback is supplied
CreationOptions ==
    { [containerConfigName |-> Null, onCreateContainer |-> FALSE],
      [containerConfigName |-> "docker", onCreateContainer |-> TRUE],
      [containerConfigName |-> "docker", onCreateContainer |-> FALSE] }

\* the step of createSingleAgent that throws, if any
Faults == {"none", "createWorktree", "copyCoordinationFiles", "saveAgentMetadata",
           "onCreateTerminal"}

\* results of onCreateContainer: container info, undefined, or a throw
ContainerOutcomes == {"info", "undefined", "throw"}

\* loadAgentMetadata's null
NoMeta == [id |-> 0, sessionId |-> 0, containerConfigName |-> Null]

\* no agent.json in the worktree's metadata directory
NoMetadataFile ==
    [json |-> FALSE, id |-> 0, name |-> Null, sessionId |-> 0,
     containerConfigName |-> Null]

NoAgent ==
    [id |-> 0, name |-> Null, sessionId |-> 0, containerConfigName |-> Null,
     containerInfo |-> FALSE]

BaseBranchError == [name |-> "", error |-> "Could not determine base branch"]

IdleBatch ==
    [pc |-> "idle", shortfall |-> 0, options |-> [containerConfigName |-> Null, onCreateContainer |-> FALSE],
     branchOutput |-> "main", availableNames |-> << >>, index |-> 1, existingIds |-> {},
     created |-> << >>, errors |-> << >>, skipped |-> 0, agent |-> NoAgent,
     threw |-> {}, containerFailed |-> {}, wrote |-> FALSE]

\* ------------------------------------------------------------------------
\* WorktreeManager and the name pool
\* ------------------------------------------------------------------------
\* saveAgentMetadata: the durable fields of the agent as the JSON object of
\* agent.json; the runtime fields are not written
saveAgentMetadata(agent) ==
    [json |-> TRUE, id |-> agent.id, name |-> agent.name, sessionId |-> agent.sessionId,
     containerConfigName |-> agent.containerConfigName]

\* loadAgentMetadata: the parsed object, or null without a parseable file
loadAgentMetadata(file) ==
    IF file.json
    THEN [id |-> file.id, sessionId |-> file.sessionId,
          containerConfigName |-> file.containerConfigName]
    ELSE NoMeta

\* a scan that trusts the central storage for the agents there are
scanWorktreesForAgents_StoredOnly ==
    IF storage.corrupt THEN {}
    ELSE {n \in worktrees : loadAgentMetadata(metadata[n]) # NoMeta /\ n \in storage.names}

\* scanWorktreesForAgents: the worktrees that hold valid metadata
scanWorktreesForAgents == {n \in worktrees : loadAgentMetadata(metadata[n]) # NoMeta}

\* the persisted agent the scan returns for a worktree
scanned(n) ==
    [id |-> loadAgentMetadata(metadata[n]).id,
     name |-> metadata[n].name,
     sessionId |-> loadAgentMetadata(metadata[n]).sessionId,
     containerConfigName |-> loadAgentMetadata(metadata[n]).containerConfigName]

\* a check that finds no worktree anywhere
worktreeExists_Never(name) == FALSE

worktreeExists(name) == name \in worktrees

Min(a, b) == IF a < b THEN a ELSE b

\* a pool that hands out its first names again while they are in use
getAvailableNames_ReusesPool(existingNames, count) ==
    SubSeq(NamePool, 1, Min(count, Len(NamePool)))

\* getAvailableNames: the first count pool names that are not in use
getAvailableNames(existingNames, count) ==
    LET free == SelectSeq(NamePool, LAMBDA n : n \notin existingNames)
    IN  SubSeq(free, 1, Min(count, Len(free)))

\* ------------------------------------------------------------------------
\* AgentFactory
\* ------------------------------------------------------------------------
getExistingAgentNames == scanWorktreesForAgents

\* getBaseBranch that returns result.trim() as it is
getBaseBranch_NoFallback(output) ==
    IF output = "throw" THEN Null ELSE output

\* result.trim() || null, and null when execSync throws
getBaseBranch(output) ==
    IF output = "throw" THEN Null
    ELSE IF output = "" THEN Null
    ELSE output

RECURSIVE nextIdFrom(_, _)
nextIdFrom(id, existingIds) ==
    IF id \in existingIds THEN nextIdFrom(id + 1, existingIds) ELSE id

getNextAgentId(existingIds) == nextIdFrom(1, existingIds)

\* generateSessionId: randomUUID() never repeats a value
generateSessionId == uuids + 1

\* an onCreateContainer block that leaves the agent as it is on a failure
afterCreateContainer_KeepsConfig(agent, outcome) ==
    IF outcome = "info"
    THEN [agent EXCEPT !.containerInfo = TRUE]
    ELSE agent

\* the agent after the onCreateContainer block of createSingleAgent
afterCreateContainer(agent, outcome) ==
    IF outcome = "info"
    THEN [agent EXCEPT !.containerInfo = TRUE]
    ELSE [agent EXCEPT !.containerConfigName = "unisolated"]

\* a loop that a throw of createSingleAgent ends
afterIteration_AbortsOnThrow(availableNames, index, thrown) ==
    IF thrown \/ index + 1 > Len(availableNames) THEN "done" ELSE "loop"

\* createAgents' loop after an iteration: a throw is caught and recorded, and
\* the loop goes on with the next name
afterIteration(availableNames, index, thrown) ==
    IF index + 1 > Len(availableNames) THEN "done" ELSE "loop"

\* names still to be processed by the calls in progress
Pending(b) ==
    IF batches[b].pc \in {"loop", "container"}
    THEN Len(batches[b].availableNames) - batches[b].index + 1
    ELSE 0

RECURSIVE SumPending(_)
SumPending(bs) ==
    IF bs = {} THEN 0
    ELSE LET b == CHOOSE x \in bs : TRUE IN Pending(b) + SumPending(bs \ {b})

\* a loop whose catch block logs the error and records nothing
Collect_CatchRecordsNothing(batch, agentName, agent, outcome) ==
    [batch EXCEPT
        !.pc = afterIteration(batch.availableNames, batch.index, outcome = "thrown"),
        !.index = batch.index + 1,
        !.agent = NoAgent,
        !.created = IF outcome = "created" THEN Append(batch.created, agent)
                                           ELSE batch.created,
        !.existingIds = IF outcome = "created" THEN batch.existingIds \cup {agent.id}
                                               ELSE batch.existingIds,
        !.skipped = IF outcome = "skipped" THEN batch.skipped + 1 ELSE batch.skipped,
        !.threw = IF outcome = "thrown" THEN batch.threw \cup {agentName}
                                        ELSE batch.threw]

\* the bookkeeping of createAgents' loop for one finished createSingleAgent:
\* outcome is "created", "skipped" or "thrown"
Collect(batch, agentName, agent, outcome) ==
    [batch EXCEPT
        !.pc = afterIteration(batch.availableNames, batch.index, outcome = "thrown"),
        !.index = batch.index + 1,
        !.agent = NoAgent,
        !.created = IF outcome = "created" THEN Append(batch.created, agent)
                                           ELSE batch.created,
        !.existingIds = IF outcome = "created" THEN batch.existingIds \cup {agent.id}
                                               ELSE batch.existingIds,
        !.skipped = IF outcome = "skipped" THEN batch.skipped + 1 ELSE batch.skipped,
        !.errors = IF outcome = "thrown"
                   THEN Append(batch.errors, [name |-> agentName, error |-> "thrown"])
                   ELSE batch.errors,
        !.threw = IF outcome = "thrown" THEN batch.threw \cup {agentName}
                                        ELSE batch.threw]

Disk == [worktrees |-> worktrees, branches |-> branches, metadata |-> metadata,
         uuids |-> uuids]

\* one iteration of createAgents' loop: createSingleAgent for the next name,
\* up to its return, its throw or its await of onCreateContainer; the result
\* is the call's state and the disk after it
iteration(batch, fault) ==
    LET agentName == batch.availableNames[batch.index]
        options == batch.options
        agentId == getNextAgentId(batch.existingIds)
        sessionId == generateSessionId
        configName == IF options.containerConfigName = Null
                      THEN "unisolated" ELSE options.containerConfigName
        agent == [id |-> agentId, name |-> agentName, sessionId |-> sessionId,
                  containerConfigName |-> configName, containerInfo |-> FALSE]
        wroteBatch == [batch EXCEPT !.wrote = TRUE]
        created == [Disk EXCEPT !.worktrees = worktrees \cup {agentName},
                                !.branches = branches \cup {agentName},
                                !.uuids = uuids + 1]
        saved == [created EXCEPT !.metadata[agentName] = saveAgentMetadata(agent)]
    IN  IF worktreeExists(agentName)
        THEN [batch |-> Collect(batch, agentName, NoAgent, "skipped"), disk |-> Disk]
        ELSE IF fault = "createWorktree" \/ agentName \in branches
        THEN [batch |-> Collect(batch, agentName, NoAgent, "thrown"), disk |-> Disk]
        ELSE IF fault \in {"copyCoordinationFiles", "saveAgentMetadata"}
        THEN [batch |-> Collect(wroteBatch, agentName, NoAgent, "thrown"), disk |-> created]
        ELSE IF /\ options.containerConfigName # Null
                /\ options.containerConfigName # "unisolated"
                /\ options.onCreateContainer
        THEN [batch |-> [wroteBatch EXCEPT !.pc = "container", !.agent = agent],
              disk |-> saved]
        ELSE IF fault = "onCreateTerminal"
        THEN [batch |-> Collect(wroteBatch, agentName, NoAgent, "thrown"), disk |-> saved]
        ELSE [batch |-> Collect(wroteBatch, agentName, agent, "created"), disk |-> saved]

Commit(b, after) ==
    /\ batches' = [batches EXCEPT ![b] = after.batch]
    /\ worktrees' = after.disk.worktrees
    /\ branches' = after.disk.branches
    /\ metadata' = after.disk.metadata
    /\ uuids' = after.disk.uuids

\* createAgents from its call to its first await: the base branch, the scan,
\* the names and the first createSingleAgent
createAgents(b, count, options, output, fault) ==
    /\ UNCHANGED notFactory
    /\ batches[b].pc = "idle"
    /\ \A earlier \in Batches : earlier < b => batches[earlier].pc # "idle"
    /\ uuids + SumPending(Batches) + count <= MaxUuids
    /\ IF count <= 0
       THEN Commit(b, [batch |-> [IdleBatch EXCEPT !.pc = "done", !.options = options],
                       disk |-> Disk])
       ELSE IF getBaseBranch(output) = Null
       THEN Commit(b, [batch |-> [IdleBatch EXCEPT !.pc = "done",
                                                   !.options = options,
                                                   !.branchOutput = output,
                                                   !.errors = <<BaseBranchError>>],
                       disk |-> Disk])
       ELSE LET existingIds == {loadAgentMetadata(metadata[n]).id : n \in scanWorktreesForAgents}
                availableNames == getAvailableNames(getExistingAgentNames, count)
                started == [IdleBatch EXCEPT !.pc = "loop",
                                             !.shortfall = count - Len(availableNames),
                                             !.options = options,
                                             !.branchOutput = output,
                                             !.availableNames = availableNames,
                                             !.existingIds = existingIds]
            IN  IF availableNames = << >>
                THEN Commit(b, [batch |-> [started EXCEPT !.pc = "done"], disk |-> Disk])
                ELSE Commit(b, iteration(started, fault))

\* createAgents' loop resumes with the next name
createSingleAgent(b, fault) ==
    /\ UNCHANGED notFactory
    /\ batches[b].pc = "loop"
    /\ Commit(b, iteration(batches[b], fault))

\* createSingleAgent resumes when onCreateContainer settles
containerSettled(b, outcome, fault) ==
    /\ UNCHANGED notFactory
    /\ batches[b].pc = "container"
    /\ fault \in {"none", "onCreateTerminal"}
    /\ UNCHANGED <<worktrees, branches, metadata, uuids>>
    /\ LET batch == [batches[b] EXCEPT
                        !.containerFailed =
                            IF outcome = "info" THEN batches[b].containerFailed
                            ELSE batches[b].containerFailed \cup {batches[b].agent.name}]
           agent == afterCreateContainer(batch.agent, outcome)
       IN  IF fault = "onCreateTerminal"
           THEN batches' = [batches EXCEPT ![b] = Collect(batch, agent.name, NoAgent, "thrown")]
           ELSE batches' = [batches EXCEPT ![b] = Collect(batch, agent.name, agent, "created")]

\* the caller has taken the batch result
resultTaken(b) ==
    /\ UNCHANGED notFactory
    /\ batches[b].pc = "done"
    /\ batches' = [batches EXCEPT ![b] = IdleBatch]
    /\ UNCHANGED <<worktrees, branches, metadata, uuids>>

\* a deletion that clears the whole worktree directory of the repository
agentsDelete_RemovesAll(name, branchDeleted) ==
    /\ UNCHANGED notFactory
    /\ name \in scanWorktreesForAgents
    /\ worktrees' = {}
    /\ metadata' = [n \in Names |-> NoMetadataFile]
    /\ branches' = IF branchDeleted THEN {} ELSE branches
    /\ UNCHANGED <<uuids, batches>>

\* `agents delete <name>`: the agent is found by its metadata, its worktree is
\* removed and the deletion of its branch is attempted
agentsDelete(name, branchDeleted) ==
    /\ UNCHANGED notFactory
    /\ name \in scanWorktreesForAgents
    /\ worktrees' = worktrees \ {name}
    /\ metadata' = [metadata EXCEPT ![name] = NoMetadataFile]
    /\ branches' = IF branchDeleted THEN branches \ {name} ELSE branches
    /\ UNCHANGED <<uuids, batches>>

\* no deletion has been recorded
NoDeleted == [name |-> "", id |-> 0, sessionId |-> 0, at |-> 0]

\* agentsDelete with its history: the name, id and session identifier of the
\* agent it removes, and the session identifiers handed out by then
agentsDeleteRecorded(name, branchDeleted) ==
    /\ UNCHANGED notFactoryNorTrace
    /\ name \in scanWorktreesForAgents
    /\ lastDeleted' = [name |-> name, id |-> scanned(name).id,
                       sessionId |-> scanned(name).sessionId, at |-> uuids]
    /\ worktrees' = worktrees \ {name}
    /\ metadata' = [metadata EXCEPT ![name] = NoMetadataFile]
    /\ branches' = IF branchDeleted THEN branches \ {name} ELSE branches
    /\ UNCHANGED <<uuids, batches>>

InitTrace == lastDeleted = NoDeleted

InitFactory ==
    /\ worktrees = {}
    /\ branches = {}
    /\ metadata = [n \in Names |-> NoMetadataFile]
    /\ uuids = 0
    /\ batches = [b \in Batches |-> IdleBatch]

\* ------------------------------------------------------------------------
\* Central storage
\* ------------------------------------------------------------------------
\* what the storage file can hold: unparseable text, or a list of agents
StorageContents ==
    {[corrupt |-> TRUE, names |-> {}]}
      \cup {[corrupt |-> FALSE, names |-> ns] : ns \in {{}, scanWorktreesForAgents}}

InitStorage == storage = [corrupt |-> FALSE, names |-> {}]

\* the storage file is rewritten: by the UI with the agents it loaded, by
\* anything else with text that is no JSON, or emptied
storageWritten(content) ==
    /\ UNCHANGED notStorage
    /\ content # storage
    /\ storage' = content

\* ========================================================================
\* FileWatcher
\* ========================================================================
MaxClock == 3
MaxStarts == 2
MaxOrphans == 3
Paths == {"a", "b"}
NativeEventTypes == {"change"}

DEFAULT_POLL_INTERVAL == 5000
DEFAULT_HEALTH_CHECK_INTERVAL == 60000
DEFAULT_DEBOUNCE_MS == 100

\* FileWatcherOptions a caller passes; an absent key is undefined
WatcherOptions ==
    { [pollInterval |-> 2, healthCheckInterval |-> 1, debounceMs |-> 1],
      [pollInterval |-> 2, healthCheckInterval |-> 1, debounceMs |-> 1,
       usePollingOnly |-> TRUE],
      [pollInterval |-> 0, healthCheckInterval |-> 1, debounceMs |-> 1,
       usePollingOnly |-> FALSE] }

\* the host of the watcher's process: process.platform and whether the
\* lower-cased /proc/version includes 'microsoft' or 'wsl'
LinuxHost == [platform |-> "linux", microsoft |-> FALSE, wsl |-> FALSE]

WslHost == [platform |-> "linux", microsoft |-> TRUE, wsl |-> TRUE]

\* isWsl(), the detection the module exports
isWsl(host) == host.platform = "linux" /\ (host.microsoft \/ host.wsl)

\* the readonly fields the constructor sets: options.x ?? DEFAULT_X; inWsl
\* and modeChosen are history: the host the object was constructed on and
\* whether the caller passed usePollingOnly
FileWatcher(options, host) ==
    [constructed |-> TRUE,
     inWsl |-> isWsl(host),
     modeChosen |-> "usePollingOnly" \in DOMAIN options,
     pollInterval |-> IF "pollInterval" \in DOMAIN options
                      THEN options.pollInterval ELSE DEFAULT_POLL_INTERVAL,
     healthCheckInterval |-> IF "healthCheckInterval" \in DOMAIN options
                             THEN options.healthCheckInterval
                             ELSE DEFAULT_HEALTH_CHECK_INTERVAL,
     usePollingOnly |-> IF "usePollingOnly" \in DOMAIN options
                        THEN options.usePollingOnly ELSE FALSE,
     debounceMs |-> IF "debounceMs" \in DOMAIN options
                    THEN options.debounceMs ELSE DEFAULT_DEBOUNCE_MS]

NoWatcher ==
    [constructed |-> FALSE, inWsl |-> FALSE, modeChosen |-> FALSE, pollInterval |-> 0, healthCheckInterval |-> 0,
     usePollingOnly |-> FALSE, debounceMs |-> 0]

\* the onEvent callbacks of one step, by event type
NoDelivery == [poll |-> 0, native |-> 0, error |-> 0]

\* doPoll: one synthetic poll event for the consumer
doPoll == [NoDelivery EXCEPT !.poll = 1]

InitWatcher ==
    /\ fwOptions = NoWatcher
    /\ _isRunning = FALSE
    /\ watcher = FALSE
    /\ pollIntervalId = NoTimer
    /\ healthCheckIntervalId = NoTimer
    /\ debounceTimeout = NoTimer
    /\ pendingEvents = [path \in Paths |-> "none"]
    /\ lastChokidarEventTime = 0
    /\ isWatcherHealthy = TRUE
    /\ starting = 0
    /\ orphans = << >>
    /\ clock = 0
    /\ delivered = NoDelivery
    /\ pollStartedAt = 0
    /\ pollCalls = 0

\* new FileWatcher(options) in a process on host
newFileWatcher(options, host) ==
    /\ UNCHANGED notWatcher
    /\ ~fwOptions.constructed
    /\ fwOptions' = FileWatcher(options, host)
    /\ delivered' = NoDelivery
    /\ UNCHANGED <<_isRunning, watcher, pollIntervalId, healthCheckIntervalId,
                   debounceTimeout, pendingEvents, lastChokidarEventTime,
                   isWatcherHealthy, starting, orphans, clock, pollStartedAt, pollCalls>>

\* setInterval / setTimeout at the watcher's clock
timerAt(period) == [active |-> TRUE, period |-> period, due |-> clock + period]

\* a timer or watcher that is replaced while live stays live without a handle
orphaned(kind, timer) ==
    IF timer.active
    THEN <<[kind |-> kind, period |-> timer.period, due |-> timer.due]>>
    ELSE << >>

\* a watcher that polls only as a fallback for a native watch that failed
backupPollingStarts_FallbackOnly(options, watching) ==
    options.pollInterval > 0 /\ ~watching

\* start(): "ALWAYS start backup polling" is guarded by the interval only
backupPollingStarts(options, watching) == options.pollInterval > 0

\* the rest of start() after startChokidarWatcher: backup polling with its
\* initial doPoll, then the health check
finishStart(watching, watcherOrphans) ==
    LET polling == backupPollingStarts(fwOptions, watching)
        checking == ~fwOptions.usePollingOnly
        left == watcherOrphans
                  \o (IF polling THEN orphaned("poll", pollIntervalId) ELSE << >>)
                  \o (IF checking THEN orphaned("health", healthCheckIntervalId)
                                  ELSE << >>)
    IN  /\ Len(left) <= MaxOrphans
        /\ orphans' = left
        /\ pollIntervalId' = IF polling THEN timerAt(fwOptions.pollInterval)
                                        ELSE pollIntervalId
        /\ pollStartedAt' = IF polling THEN clock ELSE pollStartedAt
        /\ pollCalls' = IF polling THEN 1 ELSE pollCalls
        /\ delivered' = IF polling THEN doPoll ELSE NoDelivery
        /\ healthCheckIntervalId' = IF checking THEN timerAt(fwOptions.healthCheckInterval)
                                                ELSE healthCheckIntervalId

\* start() up to its await of startChokidarWatcher, or to its end in
\* polling-only mode
start ==
    /\ UNCHANGED notWatcher
    /\ fwOptions.constructed
    /\ IF _isRunning
       THEN UNCHANGED watcherVars
       ELSE /\ _isRunning' = TRUE
            /\ lastChokidarEventTime' = clock
            /\ UNCHANGED <<fwOptions, watcher, debounceTimeout, pendingEvents,
                           isWatcherHealthy, clock>>
            /\ IF fwOptions.usePollingOnly
               THEN /\ finishStart(FALSE, orphans)
                    /\ UNCHANGED starting
               ELSE /\ starting < MaxStarts
                    /\ starting' = starting + 1
                    /\ delivered' = NoDelivery
                    /\ UNCHANGED <<pollIntervalId, healthCheckIntervalId, orphans,
                                   pollStartedAt, pollCalls>>

\* a suspended start() resumes: chokidar was imported and watches, or the
\* import or the watch threw
startResumes(watching) ==
    /\ UNCHANGED notWatcher
    /\ starting > 0
    /\ starting' = starting - 1
    /\ watcher' = IF watching THEN TRUE ELSE watcher
    /\ isWatcherHealthy' = IF watching THEN isWatcherHealthy ELSE FALSE
    /\ finishStart(watching,
                   orphans \o (IF watching /\ watcher
                               THEN <<[kind |-> "watcher", period |-> 0, due |-> 0]>>
                               ELSE << >>))
    /\ UNCHANGED <<fwOptions, _isRunning, debounceTimeout, pendingEvents,
                   lastChokidarEventTime, clock>>

\* stop()
stop ==
    /\ UNCHANGED notWatcher
    /\ fwOptions.constructed
    /\ IF ~_isRunning
       THEN UNCHANGED watcherVars
       ELSE /\ _isRunning' = FALSE
            /\ watcher' = FALSE
            /\ pollIntervalId' = NoTimer
            /\ healthCheckIntervalId' = NoTimer
            /\ debounceTimeout' = NoTimer
            /\ pendingEvents' = [path \in Paths |-> "none"]
            /\ delivered' = NoDelivery
            /\ pollStartedAt' = 0
            /\ pollCalls' = 0
            /\ UNCHANGED <<fwOptions, lastChokidarEventTime, isWatcherHealthy, starting,
                           orphans, clock>>

\* the interval callback of startBackupPolling
pollTimerFires ==
    /\ UNCHANGED notWatcher
    /\ pollIntervalId.active
    /\ pollIntervalId.due <= clock
    /\ delivered' = doPoll
    /\ pollCalls' = pollCalls + 1
    /\ pollIntervalId' = [pollIntervalId EXCEPT !.due = pollIntervalId.due + pollIntervalId.period]
    /\ UNCHANGED <<fwOptions, _isRunning, watcher, healthCheckIntervalId, debounceTimeout,
                   pendingEvents, lastChokidarEventTime, isWatcherHealthy, starting,
                   orphans, clock, pollStartedAt>>

\* the interval callback of startHealthCheck: advisory flag only
healthCheck ==
    IF clock - lastChokidarEventTime > fwOptions.healthCheckInterval /\ isWatcherHealthy
    THEN FALSE
    ELSE isWatcherHealthy

healthCheckFires ==
    /\ UNCHANGED notWatcher
    /\ healthCheckIntervalId.active
    /\ healthCheckIntervalId.due <= clock
    /\ isWatcherHealthy' = healthCheck
    /\ healthCheckIntervalId' =
          [healthCheckIntervalId EXCEPT
              !.due = healthCheckIntervalId.due + healthCheckIntervalId.period]
    /\ delivered' = NoDelivery
    /\ UNCHANGED <<fwOptions, _isRunning, watcher, pollIntervalId, debounceTimeout,
                   pendingEvents, lastChokidarEventTime, starting, orphans, clock,
                   pollStartedAt, pollCalls>>

\* a timer that lost its handle still fires
orphanFires(i) ==
    /\ UNCHANGED notWatcher
    /\ i \in 1..Len(orphans)
    /\ orphans[i].kind \in {"poll", "health"}
    /\ orphans[i].due <= clock
    /\ orphans' = [orphans EXCEPT ![i].due = orphans[i].due + orphans[i].period]
    /\ delivered' = IF orphans[i].kind = "poll" THEN doPoll ELSE NoDelivery
    /\ isWatcherHealthy' = IF orphans[i].kind = "health" THEN healthCheck
                                                         ELSE isWatcherHealthy
    /\ UNCHANGED <<fwOptions, _isRunning, watcher, pollIntervalId, healthCheckIntervalId,
                   debounceTimeout, pendingEvents, lastChokidarEventTime, starting,
                   clock, pollStartedAt, pollCalls>>

\* a chokidar watcher that can still call its handlers
watcherLive ==
    watcher \/ \E i \in 1..Len(orphans) : orphans[i].kind = "watcher"

\* a queue that flushes a fixed delay after the first event of a burst
debounced_FromFirstEvent(timeout, debounceMs) ==
    IF timeout.active THEN timeout ELSE timerAt(debounceMs)

\* queueChokidarEvent: clearTimeout of the running timer, then setTimeout
debounced(timeout, debounceMs) == timerAt(debounceMs)

\* queueChokidarEvent
nativeEvent(type, path) ==
    /\ UNCHANGED notWatcher
    /\ watcherLive
    /\ lastChokidarEventTime' = clock
    /\ isWatcherHealthy' = TRUE
    /\ pendingEvents' = [pendingEvents EXCEPT ![path] = type]
    /\ debounceTimeout' = debounced(debounceTimeout, fwOptions.debounceMs)
    /\ delivered' = NoDelivery
    /\ UNCHANGED <<fwOptions, _isRunning, watcher, pollIntervalId, healthCheckIntervalId,
                   starting, orphans, clock, pollStartedAt, pollCalls>>

\* chokidar's 'ready' handler
watcherReady ==
    /\ UNCHANGED notWatcher
    /\ watcherLive
    /\ isWatcherHealthy' = TRUE
    /\ delivered' = NoDelivery
    /\ UNCHANGED <<fwOptions, _isRunning, watcher, pollIntervalId, healthCheckIntervalId,
                   debounceTimeout, pendingEvents, lastChokidarEventTime, starting,
                   orphans, clock, pollStartedAt, pollCalls>>

\* handleWatcherError: the flag, an error event, nothing about the poll
handleWatcherError ==
    /\ UNCHANGED notWatcher
    /\ watcherLive
    /\ isWatcherHealthy' = FALSE
    /\ delivered' = [NoDelivery EXCEPT !.error = 1]
    /\ UNCHANGED <<fwOptions, _isRunning, watcher, pollIntervalId, healthCheckIntervalId,
                   debounceTimeout, pendingEvents, lastChokidarEventTime, starting,
                   orphans, clock, pollStartedAt, pollCalls>>

\* the debounce timeout fires: flushEvents
flushEvents ==
    /\ UNCHANGED notWatcher
    /\ debounceTimeout.active
    /\ debounceTimeout.due <= clock
    /\ delivered' = [NoDelivery EXCEPT
                        !.native = Cardinality({path \in Paths : pendingEvents[path] # "none"})]
    /\ pendingEvents' = [path \in Paths |-> "none"]
    /\ debounceTimeout' = NoTimer
    /\ UNCHANGED <<fwOptions, _isRunning, watcher, pollIntervalId, healthCheckIntervalId,
                   lastChokidarEventTime, isWatcherHealthy, starting, orphans, clock,
                   pollStartedAt, pollCalls>>

\* a millisecond passes; a timer that is due fires first
tick ==
    /\ UNCHANGED notWatcher
    /\ fwOptions.constructed
    /\ clock < MaxClock
    /\ \A timer \in {pollIntervalId, healthCheckIntervalId, debounceTimeout} :
          timer.active => timer.due > clock
    /\ \A i \in 1..Len(orphans) :
          orphans[i].kind \in {"poll", "health"} => orphans[i].due > clock
    /\ clock' = clock + 1
    /\ delivered' = NoDelivery
    /\ UNCHANGED <<fwOptions, _isRunning, watcher, pollIntervalId, healthCheckIntervalId,
                   debounceTimeout, pendingEvents, lastChokidarEventTime,
                   isWatcherHealthy, starting, orphans, pollStartedAt,
                   pollCalls>>

\* ========================================================================
\* TmuxService and the callers that open an agent's terminal session
\* ========================================================================
MaxKills == 1

\* the processes that can open the session of the same agent
Callers == {1, 2}

\* randomUUID() results, character by character
SessionIds ==
    { <<"3","f","2","a","9","c","1","e","-","7","b","4","d","-","4","a","6","e","-",
        "9","c","0","1","-","5","d","8","e","2","f","7","a","1","b","3","c">>,
      <<"3","f","2","a","9","c","1","e","-","0","0","4","d","-","4","a","6","e","-",
        "9","c","0","1","-","5","d","8","e","2","f","7","a","1","b","3","c">> }

\* the configured tmuxSessionPrefix
sessionPrefix == <<"o","p","u","s">>

\* the display names of the pool, character by character
DisplayNames ==
    [name \in Names |->
        CASE name = "alpha" -> <<"a","l","p","h","a">>
          [] name = "bravo" -> <<"b","r","a","v","o">>
          [] OTHER -> <<"c","h","a","r","l","i","e">>]

NoPersistedAgent == [name |-> "", sessionId |-> << >>]

NoCaller ==
    [kind |-> "none", pc |-> "idle", agentName |-> "", sessionName |-> << >>,
     isNewSession |-> FALSE,
     attachFlag |-> FALSE, creator |-> FALSE, alias |-> FALSE, failure |-> "none"]

InitTmux ==
    /\ tmuxAgent = NoPersistedAgent
    /\ tmuxSessions = {}
    /\ callers = [c \in Callers |-> NoCaller]
    /\ sessionsCreated = 0
    /\ sessionsKilled = 0

\* sessionId.replace(/-/g, '')
RECURSIVE stripDashes(_)
stripDashes(chars) ==
    IF chars = << >> THEN << >>
    ELSE (IF Head(chars) = "-" THEN << >> ELSE <<Head(chars)>>) \o stripDashes(Tail(chars))

\* String.prototype.substring(0, length)
substring0(chars, length) == SubSeq(chars, 1, Min(length, Len(chars)))

\* getSessionName(sessionId)
getSessionName(sessionId) ==
    sessionPrefix \o <<"-">> \o substring0(stripDashes(sessionId), 12)

\* session names made of the display name
getAgentSessionName_FromName(agent) == DisplayNames[agent.name]

\* getAgentSessionName(agent): the name only stands in for a missing sessionId;
\* a pool name has no character outside [a-zA-Z0-9-] to replace
getAgentSessionName(agent) ==
    IF agent.sessionId # << >>
    THEN getSessionName(agent.sessionId)
    ELSE DisplayNames[agent.name]

\* sessionExists: tmux has-session -t <sessionName>
sessionExists(sessionName) == sessionName \in tmuxSessions

\* a server on which -A is not honoured: every name in use is a duplicate
newSession_NoAttach(sessionName, attachFlag) ==
    IF sessionName \in tmuxSessions
    THEN [sessions |-> tmuxSessions, created |-> FALSE, failure |-> "duplicate session"]
    ELSE [sessions |-> tmuxSessions \cup {sessionName}, created |-> TRUE,
          failure |-> "none"]

\* tmux new-session -s <sessionName>, with -A when attachFlag: the server
\* attaches to a session of that name or creates it; without -A a name in
\* use is the error "duplicate session"
newSession(sessionName, attachFlag) ==
    IF sessionName \in tmuxSessions
    THEN [sessions |-> tmuxSessions, created |-> FALSE,
          failure |-> IF attachFlag THEN "none" ELSE "duplicate session"]
    ELSE [sessions |-> tmuxSessions \cup {sessionName}, created |-> TRUE,
          failure |-> "none"]

\* AgentFactory gave the first agent of the repository the first name of the
\* pool and its session identifier
agentCreated(sessionId) ==
    /\ UNCHANGED notTmux
    /\ tmuxAgent = NoPersistedAgent
    /\ tmuxAgent' = [name |-> NamePool[1], sessionId |-> sessionId]
    /\ UNCHANGED <<tmuxSessions, callers, sessionsCreated, sessionsKilled>>

\* the user renames the agent: the display name changes, the session
\* identifier stays
renameAgent(newName) ==
    /\ UNCHANGED notTmux
    /\ tmuxAgent # NoPersistedAgent
    /\ newName # tmuxAgent.name
    /\ tmuxAgent' = [tmuxAgent EXCEPT !.name = newName]
    /\ UNCHANGED <<tmuxSessions, callers, sessionsCreated, sessionsKilled>>

\* the command of caller c ran on the server
ran(c, kind, sessionName, attachFlag) ==
    LET result == newSession(sessionName, attachFlag)
    IN  /\ tmuxSessions' = result.sessions
        /\ sessionsCreated' = sessionsCreated + (IF result.created THEN 1 ELSE 0)
        /\ callers' = [callers EXCEPT
                          ![c].kind = kind,
                          ![c].agentName = IF kind = "core" THEN tmuxAgent.name
                                                            ELSE callers[c].agentName,
                          ![c].sessionName = sessionName,
                          ![c].attachFlag = attachFlag,
                          ![c].creator = result.created,
                          ![c].failure = result.failure,
                          ![c].pc = IF result.failure = "none"
                                    THEN IF kind = "cli" THEN "created" ELSE "attached"
                                    ELSE "failed"]

\* TmuxService.createOrAttachSession for the agent's session: one command
createOrAttachSession(c) ==
    /\ UNCHANGED notTmux
    /\ tmuxAgent # NoPersistedAgent
    /\ callers[c].pc = "idle"
    /\ ran(c, "core", getAgentSessionName(tmuxAgent), TRUE)
    /\ UNCHANGED <<tmuxAgent, sessionsKilled>>

\* cli attachToAgentSession up to its create command: the name and the
\* existence check
attachToAgentSession(c) ==
    /\ UNCHANGED notTmux
    /\ tmuxAgent # NoPersistedAgent
    /\ callers[c].pc = "idle"
    /\ LET sessionName == getAgentSessionName(tmuxAgent)
       IN  callers' = [callers EXCEPT
                          ![c].kind = "cli",
                          ![c].pc = "checked",
                          ![c].agentName = tmuxAgent.name,
                          ![c].sessionName = sessionName,
                          ![c].isNewSession = ~sessionExists(sessionName)]
    /\ UNCHANGED <<tmuxAgent, tmuxSessions, sessionsCreated, sessionsKilled>>

\* cli attachToAgentSession: TmuxService.createDetachedSession (-A -d)
createDetachedSession(c) ==
    /\ UNCHANGED notTmux
    /\ callers[c].kind = "cli"
    /\ callers[c].pc = "checked"
    /\ ran(c, "cli", callers[c].sessionName, TRUE)
    /\ UNCHANGED <<tmuxAgent, sessionsKilled>>

\* cli attachToAgentSession after the create: the oo alias is sent when the
\* check had found no session, then the caller attaches; send-keys and
\* attach-session need the session
setupOoAliasAndAttach(c) ==
    /\ UNCHANGED notTmux
    /\ callers[c].kind = "cli"
    /\ callers[c].pc = "created"
    /\ LET there == sessionExists(callers[c].sessionName)
       IN  callers' = [callers EXCEPT
                          ![c].alias = callers[c].isNewSession /\ there,
                          ![c].failure = IF there THEN "none" ELSE "no session",
                          ![c].pc = IF there THEN "attached" ELSE "failed"]
    /\ UNCHANGED <<tmuxAgent, tmuxSessions, sessionsCreated, sessionsKilled>>

\* extension buildTmuxCommand: the existence check picks the command, -A
\* only when the session was found or Claude is not started with it
buildTmuxCommand(c, startClaude) ==
    /\ UNCHANGED notTmux
    /\ tmuxAgent # NoPersistedAgent
    /\ tmuxAgent.sessionId # << >>
    /\ callers[c].pc = "idle"
    /\ LET sessionName == getSessionName(tmuxAgent.sessionId)
           isNewSession == ~sessionExists(sessionName)
       IN  callers' = [callers EXCEPT
                          ![c].kind = "vscode",
                          ![c].pc = "built",
                          ![c].agentName = tmuxAgent.name,
                          ![c].sessionName = sessionName,
                          ![c].isNewSession = isNewSession,
                          ![c].attachFlag = ~(isNewSession /\ startClaude)]
    /\ UNCHANGED <<tmuxAgent, tmuxSessions, sessionsCreated, sessionsKilled>>

\* the terminal of the extension runs the command that was built
terminalRuns(c) ==
    /\ UNCHANGED notTmux
    /\ callers[c].kind = "vscode"
    /\ callers[c].pc = "built"
    /\ ran(c, "vscode", callers[c].sessionName, callers[c].attachFlag)
    /\ UNCHANGED <<tmuxAgent, sessionsKilled>>

\* the user detaches, or dismisses the failed terminal
detach(c) ==
    /\ UNCHANGED notTmux
    /\ callers[c].pc \in {"attached", "failed"}
    /\ callers' = [callers EXCEPT ![c] = NoCaller]
    /\ UNCHANGED <<tmuxAgent, tmuxSessions, sessionsCreated, sessionsKilled>>

\* TmuxService.killSession: the clients attached to the session leave it
killSession(sessionName) ==
    /\ UNCHANGED notTmux
    /\ sessionsKilled < MaxKills
    /\ sessionExists(sessionName)
    /\ tmuxSessions' = tmuxSessions \ {sessionName}
    /\ sessionsKilled' = sessionsKilled + 1
    /\ callers' = [c \in Callers |->
                      IF callers[c].pc = "attached" /\ callers[c].sessionName = sessionName
                      THEN NoCaller ELSE callers[c]]
    /\ UNCHANGED <<tmuxAgent, sessionsCreated>>

\* ========================================================================
\* GitService and the command runner
\* ========================================================================
GIT_TIMEOUTS == [fast |-> 5000, medium |-> 15000, slow |-> 60000]

RETRY_CONFIG == [retries |-> 3, minTimeout |-> 500, maxTimeout |-> 3000, factor |-> 2]

\* the GitService methods that change the repository, and two calls that run
\* a process with child_process.execSync
MutatingOperations ==
    {"createWorktree", "removeWorktree", "deleteBranch", "renameBranch", "initRepo",
     "stageAll", "commit"}

Operations == MutatingOperations \cup {"isGitRepo", "exec"}

\* what the external process of one attempt does: it succeeds, it exits with
\* an error, or it never exits by itself
AttemptOutcomes == {"ok", "error", "hang"}

\* the methods whose body runs inside this.withRetry
withRetry(op) == op \in {"createWorktree", "renameBranch", "stageAll", "commit"}

\* a service that lets the errors of its removals through
catches_Nothing(op) == op = "isGitRepo"

\* the methods whose try/catch keeps the error from the caller
catches(op) == op \in {"removeWorktree", "deleteBranch", "isGitRepo"}

\* the timeout.block of this.git(cwd, timeout); execSync is given none
timeout(op) ==
    CASE op = "createWorktree" -> GIT_TIMEOUTS.slow
      [] op \in {"removeWorktree", "stageAll", "commit"} -> GIT_TIMEOUTS.medium
      [] op \in {"deleteBranch", "renameBranch", "initRepo"} -> GIT_TIMEOUTS.fast
      [] OTHER -> 0

RECURSIVE power(_, _)
power(base, exponent) ==
    IF exponent = 0 THEN 1 ELSE base * power(base, exponent - 1)

\* p-retry's wait after the failed attempt attemptNumber
retryDelay(attemptNumber) ==
    Min(RETRY_CONFIG.minTimeout * power(RETRY_CONFIG.factor, attemptNumber - 1),
        RETRY_CONFIG.maxTimeout)

\* what a method does after a failed attempt
afterFailure(op, attemptNumber) ==
    IF withRetry(op) /\ attemptNumber <= RETRY_CONFIG.retries THEN "retrying"
    ELSE IF catches(op) THEN "returned"
    ELSE "threw"

NoGitCall ==
    [op |-> "none", name |-> "", newName |-> "", state |-> "idle", attemptNumber |-> 0,
     delays |-> << >>, elapsed |-> 0, failed |-> FALSE]

InitGit == gitCall = NoGitCall

\* git can do what the command asks in the repository as it is
applicable(op, name, newName) ==
    CASE op = "createWorktree" -> name \notin worktrees /\ name \notin branches
      [] op = "removeWorktree" -> name \in worktrees
      [] op = "deleteBranch" -> name \in branches /\ name \notin worktrees
      [] op = "renameBranch" -> name \in branches /\ newName \notin branches
      [] OTHER -> TRUE

\* the repository after the command succeeded
applied(op, name, newName) ==
    CASE op = "createWorktree" ->
            [Disk EXCEPT !.worktrees = worktrees \cup {name},
                         !.branches = branches \cup {name}]
      [] op = "removeWorktree" ->
            [Disk EXCEPT !.worktrees = worktrees \ {name},
                         !.metadata[name] = NoMetadataFile]
      [] op = "deleteBranch" -> [Disk EXCEPT !.branches = branches \ {name}]
      [] op = "renameBranch" ->
            [Disk EXCEPT !.branches = (branches \ {name}) \cup {newName}]
      [] OTHER -> Disk

\* one attempt of the call: the process runs, and the method goes on from
\* its result
attempt(call, outcome) ==
    LET attemptNumber == call.attemptNumber + 1
        done == outcome = "ok" /\ applicable(call.op, call.name, call.newName)
        blocked == outcome = "hang" /\ timeout(call.op) = 0
        state == IF done THEN "returned"
                 ELSE IF blocked THEN "blocked"
                 ELSE afterFailure(call.op, attemptNumber)
        after == IF done THEN applied(call.op, call.name, call.newName) ELSE Disk
    IN  /\ gitCall' = [call EXCEPT
                          !.attemptNumber = attemptNumber,
                          !.state = state,
                          !.failed = ~done,
                          !.elapsed = call.elapsed
                                        + (IF outcome = "hang" THEN timeout(call.op) ELSE 0)
                                        + (IF state = "retrying"
                                           THEN retryDelay(attemptNumber) ELSE 0),
                          !.delays = IF state = "retrying"
                                     THEN Append(call.delays, retryDelay(attemptNumber))
                                     ELSE call.delays]
        /\ worktrees' = after.worktrees
        /\ branches' = after.branches
        /\ metadata' = after.metadata

\* a caller awaits a GitService method, or runs a command: the first attempt
invoke(op, name, newName, outcome) ==
    /\ UNCHANGED notGit
    /\ gitCall.state \in {"idle", "returned", "threw"}
    /\ newName # name <=> op = "renameBranch"
    /\ attempt([NoGitCall EXCEPT !.op = op, !.name = name, !.newName = newName], outcome)

\* p-retry runs the operation again after its delay
retry(outcome) ==
    /\ UNCHANGED notGit
    /\ gitCall.state = "retrying"
    /\ attempt(gitCall, outcome)

\* ========================================================================
\* Diff statistics: GitService.getDiffStats and AgentStatusTracker.refreshDiffStats
\* ========================================================================
\* the agents of the map handed to refreshDiffStats
DiffAgentIds == {1, 2}

ZeroStats == [insertions |-> 0, deletions |-> 0, filesChanged |-> 0]

\* git.diffSummary of a worktree: nothing changed, or lines changed in files
DiffSummaries == {ZeroStats, [insertions |-> 5, deletions |-> 2, filesChanged |-> 1]}

\* how this.withRetry(diffSummary) settles: it resolves with the summary, or
\* it rejects after its retries with a timeout or with another git error
DiffOutcomes == {"resolved", "timeout", "error"}

\* the configured diffPollingInterval: disabled, or the default
DiffPollingIntervals == {0, DEFAULT_POLLING_CONFIG.diffInterval}

\* Result<DiffStats>: ok(data) and err(message, code)
ok(data) == [success |-> TRUE, data |-> data, code |-> Null]

err(code) == [success |-> FALSE, data |-> Null, code |-> code]

getDiffStatsResult(summary, outcome) ==
    CASE outcome = "resolved" -> ok(summary)
      [] outcome = "timeout" -> err("TIMEOUT")
      [] OTHER -> err("COMMAND_FAILED")

\* the deprecated getDiffStats: "Backward compatibility: return zeros on error"
getDiffStats(summary, outcome) ==
    IF getDiffStatsResult(summary, outcome).success
    THEN getDiffStatsResult(summary, outcome).data
    ELSE ZeroStats

\* getDiffStatsAsync's comparison of the previous and the new statistics
diffStatsChanged(previousDiffStats, newDiffStats) ==
    \/ previousDiffStats.insertions # newDiffStats.insertions
    \/ previousDiffStats.deletions # newDiffStats.deletions
    \/ previousDiffStats.filesChanged # newDiffStats.filesChanged

\* no diff was computed for the agent in the last step
NoDiffResult == [outcome |-> "none", received |-> ZeroStats]

InitDiff ==
    /\ diffAgents = [id \in DiffAgentIds |-> ZeroStats]
    /\ worktreeDiff = [id \in DiffAgentIds |-> ZeroStats]
    /\ diffResults = [id \in DiffAgentIds |-> NoDiffResult]
    /\ diffEvents = {}

\* the agent of a worktree commits or reverts work
worktreeChanges(id, summary) ==
    /\ UNCHANGED notDiff
    /\ worktreeDiff[id] # summary
    /\ worktreeDiff' = [worktreeDiff EXCEPT ![id] = summary]
    /\ diffResults' = [i \in DiffAgentIds |-> NoDiffResult]
    /\ diffEvents' = {}
    /\ UNCHANGED diffAgents

\* refreshDiffStats: getDiffStatsAsync for every agent of the map, all awaited
refreshDiffStats(diffInterval, outcomes) ==
    /\ UNCHANGED notDiff
    /\ UNCHANGED worktreeDiff
    /\ IF diffInterval = 0
       THEN /\ diffResults' = [id \in DiffAgentIds |-> NoDiffResult]
            /\ diffEvents' = {}
            /\ UNCHANGED diffAgents
       ELSE LET newDiffStats == [id \in DiffAgentIds |->
                                    getDiffStats(worktreeDiff[id], outcomes[id])]
                changed == {id \in DiffAgentIds :
                               diffStatsChanged(diffAgents[id], newDiffStats[id])}
            IN  /\ diffAgents' = [id \in DiffAgentIds |->
                                     IF id \in changed THEN newDiffStats[id]
                                                       ELSE diffAgents[id]]
                /\ diffEvents' = changed
                /\ diffResults' = [id \in DiffAgentIds |->
                                      [outcome |-> outcomes[id],
                                       received |-> newDiffStats[id]]]

\* ------------------------------------------------------------------------
\* getDiffStatsAsync calls that overlap in time
\* ------------------------------------------------------------------------
\* who called refreshDiffStats: the interval timer, or the delayed initial poll
DiffCallers == {"interval", "initial"}

\* a call that is not running
NoDiffCall == [pc |-> "idle", previousDiffStats |-> ZeroStats]

InitOverlap == diffCalls = [c \in DiffCallers |-> [id \in DiffAgentIds |-> NoDiffCall]]

\* pollDiff of one caller: refreshDiffStats starts getDiffStatsAsync for every
\* agent of the map; each call runs up to its await of getBaseBranch
pollDiff(c) ==
    /\ UNCHANGED notDiffNorOverlap
    /\ \A id \in DiffAgentIds : diffCalls[c][id].pc = "idle"
    /\ diffCalls' = [diffCalls EXCEPT ![c] =
                        [id \in DiffAgentIds |-> [NoDiffCall EXCEPT !.pc = "getBaseBranch"]]]
    /\ diffEvents' = {}
    /\ UNCHANGED <<diffAgents, worktreeDiff, diffResults>>

\* getBaseBranch settles: the call copies agent.diffStats and awaits
\* getDiffStats, or lands in its catch
baseBranchSettles(c, id, resolved) ==
    /\ UNCHANGED notDiffNorOverlap
    /\ diffCalls[c][id].pc = "getBaseBranch"
    /\ diffCalls' = [diffCalls EXCEPT ![c][id] =
                        IF resolved
                        THEN [pc |-> "getDiffStats", previousDiffStats |-> diffAgents[id]]
                        ELSE NoDiffCall]
    /\ diffEvents' = {}
    /\ UNCHANGED <<diffAgents, worktreeDiff, diffResults>>

\* getDiffStats settles: the call compares what it got with its copy, and
\* on a difference stores the new statistics and emits agent:diffStatsChanged
diffStatsSettle(c, id, outcome) ==
    /\ UNCHANGED notDiffNorOverlap
    /\ diffCalls[c][id].pc = "getDiffStats"
    /\ LET newDiffStats == getDiffStats(worktreeDiff[id], outcome)
           changed == diffStatsChanged(diffCalls[c][id].previousDiffStats, newDiffStats)
       IN  /\ diffAgents' = IF changed THEN [diffAgents EXCEPT ![id] = newDiffStats]
                                       ELSE diffAgents
           /\ diffEvents' = IF changed THEN {id} ELSE {}
    /\ diffCalls' = [diffCalls EXCEPT ![c][id] = NoDiffCall]
    /\ UNCHANGED <<worktreeDiff, diffResults>>

\* ========================================================================
\* Status ticks over several agents: refreshStatus as the status timer calls it
\* ========================================================================
\* the agents of the map, in the order the map iterates them
TickAgentIds == {1, 2}

\* a signal file that is there and cannot be read
UnreadableContent == [kind |-> "unreadable", status |-> Null, tool |-> Null, input |-> Null]

\* a Status Parser that lets the error of a failed read through
checkStatusThrows_OnReadFailure(file) == file.kind = "unreadable"

\* whether statusService.checkStatus throws for the file: the Status Parser
\* turns a failed read into "no result"
checkStatusThrows(file) == FALSE

loadedAgent ==
    [status |-> "idle", statusIcon |-> "circle-outline", pendingApproval |-> NoApproval,
     lastInteractionTime |-> 0, terminal |-> FALSE]

NoTick ==
    [ran |-> FALSE, reconciled |-> {}, statusChanged |-> {}, approvalPending |-> {},
     previousStatus |-> [id \in TickAgentIds |-> Null]]

InitTick ==
    /\ tickAgents = [id \in TickAgentIds |-> loadedAgent]
    /\ tickFiles = [id \in TickAgentIds |-> NoFile]
    /\ tickReport = NoTick
    /\ crashed = FALSE

\* the hook process of an agent writes its signal file, or the file becomes
\* unreadable
signalFileChanges(id, content) ==
    /\ UNCHANGED notTick
    /\ ~crashed
    /\ tickFiles' = [tickFiles EXCEPT ![id] =
                        [kind |-> content.kind, status |-> content.status,
                         tool |-> content.tool, input |-> content.input, mtime |-> 0,
                         fresh |-> FALSE]]
    /\ tickFiles' # tickFiles
    /\ tickReport' = NoTick
    /\ UNCHANGED <<tickAgents, crashed>>

\* the user answers the pending approval of an agent
approvalAnswered(id) ==
    /\ UNCHANGED notTick
    /\ ~crashed
    /\ tickAgents[id].pendingApproval # NoApproval
    /\ tickAgents' = [tickAgents EXCEPT ![id].pendingApproval = NoApproval,
                                        ![id].status = "working"]
    /\ tickReport' = NoTick
    /\ UNCHANGED <<tickFiles, crashed>>

\* the owner of the agents attaches a terminal session to an agent or loses
\* it (Agent.terminal: a handle or null); the icon is left as it is
terminalChanges(id) ==
    /\ UNCHANGED notTick
    /\ ~crashed
    /\ tickAgents' = [tickAgents EXCEPT ![id].terminal = ~tickAgents[id].terminal]
    /\ tickReport' = NoTick
    /\ UNCHANGED <<tickFiles, crashed>>

\* the status timer's callback: refreshStatus(getAgents()); the for loop has
\* no try, so a throw of checkStatus ends it and leaves the callback
statusTick ==
    /\ UNCHANGED notTick
    /\ ~crashed
    /\ LET threw == {id \in TickAgentIds : checkStatusThrows(tickFiles[id])}
           reached == {id \in TickAgentIds : \A j \in threw : id <= j}
           reconciled == reached \ threw
       IN  /\ tickAgents' =
                 [id \in TickAgentIds |->
                     IF id \in reconciled
                     THEN updateAgentIcon(checkHookStatus(tickAgents[id],
                                                          checkStatus(tickFiles[id])))
                     ELSE tickAgents[id]]
           /\ tickReport' =
                 [ran |-> TRUE,
                  reconciled |-> reconciled,
                  statusChanged |->
                      {id \in reconciled :
                          statusChangedEmitted(tickAgents[id], checkStatus(tickFiles[id]))},
                  approvalPending |->
                      {id \in reconciled :
                          approvalPendingEmitted(tickAgents[id], checkStatus(tickFiles[id]))},
                  previousStatus |->
                      [id \in TickAgentIds |->
                          IF /\ id \in reconciled
                             /\ statusChangedEmitted(tickAgents[id],
                                                     checkStatus(tickFiles[id]))
                          THEN previousStatus(tickAgents[id])
                          ELSE Null]]
           /\ crashed' = (threw # {})
    /\ UNCHANGED tickFiles

\* ========================================================================
\* Specifications
\* ========================================================================
Init ==
    /\ InitTracker /\ InitFactory /\ InitWatcher /\ InitTmux /\ InitStorage /\ InitGit
    /\ InitDiff /\ InitTick /\ InitTrace /\ InitOverlap

\* the dashboard beside direct callers of the tracker; starts of the status
\* loop alone are left to NextPolling
Next ==
    \/ pollingEffect
    \/ \E config \in ConfigOverrides \ {StatusOnlyConfig} : startPolling(config)
    \/ stopPolling
    \/ statusTimer
    \/ todoTimer
    \/ diffTimer
    \/ diffTimeout
    \/ \E d \in AdvanceChoices : Advance(d)
    \/ \E id \in AgentIds, content \in SignalContents : writeSignal(id, content)
    \/ \E id \in AgentIds, sent \in BOOLEAN : approveAgent(id, sent)
    \/ \E id \in AgentIds, sent \in BOOLEAN : rejectAgent(id, sent)
    \/ \E id \in AgentIds, removed \in BOOLEAN : deleteAgent(id, removed)

Spec == Init /\ [][Next]_vars

\* the tracker's polling alone: the dashboard starts it once, then any
\* sequence of startPolling and stopPolling calls while time passes and the
\* timers fire; no signal is written and no command is given
NextPolling ==
    \/ pollingEffect
    \/ \E config \in ConfigOverrides : startPolling(config)
    \/ stopPolling
    \/ statusTimer
    \/ todoTimer
    \/ diffTimer
    \/ diffTimeout
    \/ \E d \in AdvanceChoices : Advance(d)

SpecPolling == Init /\ [][NextPolling]_vars

\* one createAgents call at a time, with every fault of its steps, and
\* deletions that succeed in between
NextFactory ==
    \/ \E count \in 0..MaxCount, options \in CreationOptions,
          output \in BranchOutputs, fault \in Faults :
              createAgents(1, count, options, output, fault)
    \/ \E fault \in Faults : createSingleAgent(1, fault)
    \/ \E outcome \in ContainerOutcomes, fault \in Faults :
          containerSettled(1, outcome, fault)
    \/ resultTaken(1)
    \/ \E name \in Names : agentsDelete(name, TRUE)

\* the factory runs beside a tracker that was given a todo service
InitWithTodoService == Init /\ todoService = TRUE

SpecFactory == InitWithTodoService /\ [][NextFactory]_vars

\* createAgents calls in progress together, resumed in any order at their
\* awaits, with deletions in between; no step of theirs throws
NextInterleaved ==
    \/ \E b \in Batches, count \in 0..MaxCount, options \in CreationOptions :
          createAgents(b, count, options, "main", "none")
    \/ \E b \in Batches : createSingleAgent(b, "none")
    \/ \E b \in Batches : containerSettled(b, "info", "none")
    \/ \E b \in Batches : resultTaken(b)
    \/ \E name \in Names : agentsDelete(name, TRUE)

SpecInterleaved == InitWithTodoService /\ [][NextInterleaved]_vars

\* one createAgents call at a time whose steps do not throw, deletions, and
\* a central storage file that is rewritten, emptied or corrupted at any time
NextRecovery ==
    \/ \E count \in 0..MaxCount, options \in CreationOptions :
          createAgents(1, count, options, "main", "none")
    \/ createSingleAgent(1, "none")
    \/ \E outcome \in ContainerOutcomes : containerSettled(1, outcome, "none")
    \/ resultTaken(1)
    \/ \E name \in Names : agentsDelete(name, TRUE)
    \/ \E content \in StorageContents : storageWritten(content)

SpecRecovery == InitWithTodoService /\ [][NextRecovery]_vars

\* what a step of createSingleAgent can do in the runs with deletions
DeletionFaults == {"none", "createWorktree"}

\* one createAgents call at a time with default options, whose createWorktree
\* can fail, and deletions in between, which are recorded
NextDeletion ==
    \/ \E count \in 0..MaxCount, fault \in DeletionFaults :
          createAgents(1, count, [containerConfigName |-> Null, onCreateContainer |-> FALSE],
                       "main", fault)
    \/ \E fault \in DeletionFaults : createSingleAgent(1, fault)
    \/ resultTaken(1)
    \/ \E name \in Names, branchDeleted \in BOOLEAN : agentsDeleteRecorded(name, branchDeleted)

SpecDeletion == InitWithTodoService /\ [][NextDeletion]_vars

NextWatcher ==
    \/ \E options \in WatcherOptions : newFileWatcher(options, LinuxHost)
    \/ start
    \/ \E watching \in BOOLEAN : startResumes(watching)
    \/ stop
    \/ pollTimerFires
    \/ healthCheckFires
    \/ \E i \in 1..MaxOrphans : orphanFires(i)
    \/ \E type \in NativeEventTypes, path \in Paths : nativeEvent(type, path)
    \/ watcherReady
    \/ handleWatcherError
    \/ flushEvents
    \/ tick

SpecWatcher == InitWithTodoService /\ [][NextWatcher]_vars

\* the watcher of a process inside WSL whose caller passes no usePollingOnly,
\* as createFileWatcher does
NextWsl ==
    \/ \E options \in {o \in WatcherOptions : "usePollingOnly" \notin DOMAIN o} :
          newFileWatcher(options, WslHost)
    \/ start
    \/ \E watching \in BOOLEAN : startResumes(watching)
    \/ stop
    \/ pollTimerFires
    \/ healthCheckFires
    \/ \E i \in 1..MaxOrphans : orphanFires(i)
    \/ \E type \in NativeEventTypes, path \in Paths : nativeEvent(type, path)
    \/ watcherReady
    \/ handleWatcherError
    \/ flushEvents
    \/ tick

SpecWsl == InitWithTodoService /\ [][NextWsl]_vars

\* callers opening the session of one agent, step by step in any order
NextTmux ==
    \/ \E sessionId \in SessionIds : agentCreated(sessionId)
    \/ \E newName \in Names : renameAgent(newName)
    \/ \E c \in Callers : createOrAttachSession(c)
    \/ \E c \in Callers : attachToAgentSession(c)
    \/ \E c \in Callers : createDetachedSession(c)
    \/ \E c \in Callers : setupOoAliasAndAttach(c)
    \/ \E c \in Callers, startClaude \in BOOLEAN : buildTmuxCommand(c, startClaude)
    \/ \E c \in Callers : terminalRuns(c)
    \/ \E c \in Callers : detach(c)
    \/ \E sessionName \in tmuxSessions : killSession(sessionName)

SpecTmux == InitWithTodoService /\ [][NextTmux]_vars

\* GitService methods and commands called one after the other on a
\* repository, every attempt with any outcome of its process
NextGit ==
    \/ \E op \in Operations, name, newName \in Names, outcome \in AttemptOutcomes :
          invoke(op, name, newName, outcome)
    \/ \E outcome \in AttemptOutcomes : retry(outcome)

SpecGit == InitWithTodoService /\ [][NextGit]_vars

\* diff reconciliations of two agents whose worktrees change in between, every
\* diff computation settling in any way
NextDiff ==
    \/ \E id \in DiffAgentIds, summary \in DiffSummaries : worktreeChanges(id, summary)
    \/ \E diffInterval \in DiffPollingIntervals, outcomes \in [DiffAgentIds -> DiffOutcomes] :
          refreshDiffStats(diffInterval, outcomes)

SpecDiff == InitWithTodoService /\ [][NextDiff]_vars

\* diff reconciliations of the interval timer and of the initial poll over the
\* same agents, each suspended at its awaits, while the worktrees change
NextOverlap ==
    \/ \E id \in DiffAgentIds, summary \in DiffSummaries : worktreeChanges(id, summary)
    \/ \E c \in DiffCallers : pollDiff(c)
    \/ \E c \in DiffCallers, id \in DiffAgentIds, resolved \in BOOLEAN :
          baseBranchSettles(c, id, resolved)
    \/ \E c \in DiffCallers, id \in DiffAgentIds, outcome \in DiffOutcomes :
          diffStatsSettle(c, id, outcome)

SpecOverlap == InitWithTodoService /\ [][NextOverlap]_vars

\* status ticks over two agents whose signal files are rewritten or become
\* unreadable in between, and whose approvals the user answers
NextTick ==
    \/ \E id \in TickAgentIds, content \in SignalContents \cup {UnreadableContent} :
          signalFileChanges(id, content)
    \/ \E id \in TickAgentIds : approvalAnswered(id)
    \/ \E id \in TickAgentIds : terminalChanges(id)
    \/ statusTick

SpecTick == InitWithTodoService /\ [][NextTick]_vars

\* a step that ran a status reconciliation over the agents of the accessor
StatusTick == ticked'

\* the signal file of id predates the agent's last interaction
StaleFile(id) ==
    /\ files[id].kind # "none"
    /\ files[id].mtime < agents[id].lastInteractionTime

\* C1: a status reconciliation leaves the status of every agent unchanged
\* whose latest signal file has a modification time earlier than the agent's
\* lastInteractionTime.
C1_StaleSignalIsDiscarded ==
    [][StatusTick =>
          \A id \in DOMAIN agents :
              StaleFile(id) => agentsMap'[id].status = agents[id].status]_trackerVars

\* C2: once the user has approved an agent, no status reconciliation reading
\* the signal file that was written before the approval puts the agent's
\* status back to the value it had before the approval.
C2_ApprovalIsNotReverted ==
    [][StatusTick =>
          \A id \in DOMAIN agents :
              (response[id].given /\ agents[id].status # response[id].previousStatus)
                  => agentsMap'[id].status # response[id].previousStatus]_trackerVars

\* C3: while status polling is active, a parseable signal file that was
\* written with an mtime later than lastInteractionTime and is older than one
\* status period has been applied: with no local command since the last
\* reconciliation, the agent's status is the status the file encodes.
C3_FreshSignalAppliedWithinOnePeriod ==
    \A id \in DOMAIN agents :
        ( /\ _isPolling
          /\ pollingIntervals["status"].active
          /\ pollingIntervals["status"].due > now
          /\ files[id].fresh
          /\ checkStatus(files[id]).found
          /\ now - files[id].mtime > pollingIntervals["status"].period
          /\ id \notin touched )
        => agents[id].status = checkStatus(files[id]).status

C3_Witness ==
    \E id \in DOMAIN agents :
        /\ _isPolling
        /\ pollingIntervals["status"].active
        /\ pollingIntervals["status"].due > now
        /\ files[id].fresh
        /\ files[id].kind = "token"
        /\ files[id].status = "waiting-input"
        /\ now - files[id].mtime > pollingIntervals["status"].period
        /\ id \notin touched
        /\ agents[id].status = "waiting-input"

\* C4: a status reconciliation that reads a tool payload whose mtime is later
\* than the agent's lastInteractionTime leaves the agent waiting-approval with
\* a non-null pending approval that contains the tool name and the tool input.
C4_FreshToolPayloadYieldsApproval ==
    [][StatusTick =>
          \A id \in DOMAIN agents :
              (files[id].kind = "tool" /\ files[id].mtime > agents[id].lastInteractionTime)
                  => /\ agentsMap'[id].status = "waiting-approval"
                     /\ agentsMap'[id].pendingApproval # NoApproval
                     /\ Contains(agentsMap'[id].pendingApproval, files[id].tool)
                     /\ Contains(agentsMap'[id].pendingApproval, files[id].input)]_trackerVars

C4_Witness ==
    \E id \in DOMAIN agents :
        /\ ticked
        /\ id \in DOMAIN agentsMap
        /\ files[id].kind = "tool"
        /\ files[id].tool = "Edit"
        /\ files[id].mtime > agentsMap[id].lastInteractionTime
        /\ agentsMap[id].status = "waiting-approval"
        /\ agentsMap[id].pendingApproval = <<"Edit", "npm install">>

NoTimerScheduled ==
    /\ \A l \in Loops : ~pollingIntervals[l].active
    /\ timeouts = << >>

\* C9: whenever polling is stopped no timer is scheduled, and no step between
\* two states in which polling is stopped invokes a callback of any loop.
C9_StopLeavesNoTimer ==
    [][~_isPolling' =>
          /\ NoTimerScheduled'
          /\ (~_isPolling => calls' = calls)]_trackerVars

C5_IdsAndSessionIdsAreUnique ==
    \A m, n \in scanWorktreesForAgents :
        m # n => /\ scanned(m).id # scanned(n).id
                 /\ scanned(m).sessionId # scanned(n).sessionId

\* the agent that a call returned for a name, in its created list
CreatedAs(b, name) ==
    {batches[b].created[i] : i \in {j \in 1..Len(batches[b].created) :
                                       batches[b].created[j].name = name}}

ErrorNames(b) == {batches[b].errors[i].name : i \in 1..Len(batches[b].errors)}

C7_FailureDoesNotAbortBatch ==
    \A b \in Batches :
        (batches[b].pc = "done" /\ batches[b].branchOutput = "main") =>
            /\ batches[b].index = Len(batches[b].availableNames) + 1
            /\ Len(batches[b].created) + batches[b].skipped + Len(batches[b].errors)
                   = Len(batches[b].availableNames)
            /\ batches[b].threw \subseteq ErrorNames(b)

C7_Witness ==
    /\ batches[1].pc = "done"
    /\ batches[1].availableNames = <<"alpha", "bravo", "charlie">>
    /\ batches[1].threw = {"alpha"}
    /\ ErrorNames(1) = {"alpha"}
    /\ Len(batches[1].created) = 2
    /\ batches[1].created[1].name = "bravo"
    /\ batches[1].created[2].name = "charlie"

\* git printed no branch name, or the command failed
Undetermined(output) == output \in {"", "throw"}

\* C8: a call that could not determine the base branch ends at once, with no
\* worktree, branch or metadata written by it, with no created agent and
\* with the failure as the only error of its result.
C8_NoBaseBranchAbortsBatch ==
    [][\A b \in Batches :
          (batches[b].pc = "idle" /\ batches'[b].pc # "idle"
             /\ Undetermined(batches'[b].branchOutput)) =>
                /\ batches'[b].pc = "done"
                /\ batches'[b].created = << >>
                /\ batches'[b].errors = <<BaseBranchError>>
                /\ ~batches'[b].wrote
                /\ UNCHANGED <<worktrees, branches, metadata>>]_factoryVars

C8_Witness ==
    /\ batches[1].pc = "done"
    /\ batches[1].branchOutput = ""
    /\ batches[1].created = << >>
    /\ batches[1].errors = <<BaseBranchError>>
    /\ worktrees = {"alpha"}

\* start() has returned and the watcher was not stopped since
Started == _isRunning /\ starting = 0

\* C11: while the File Watcher runs with a positive poll interval and its
\* start has returned, the backup poll timer is live with the configured
\* period, its next poll is due within one period, and one synthetic poll was
\* delivered per period since the polling began, whatever the native watch
\* did: never emitted, errored, failed to start or was flagged unhealthy.
C11_BackupPollNeverDisabled ==
    (Started /\ fwOptions.pollInterval > 0)
        => /\ pollIntervalId.active
           /\ pollIntervalId.period = fwOptions.pollInterval
           /\ pollIntervalId.due <= clock + fwOptions.pollInterval
           /\ pollCalls * fwOptions.pollInterval = pollIntervalId.due - pollStartedAt

\* the native watch failed to start and is flagged unhealthy, and the poll
\* after the initial one has just been delivered, one period later
C11_Witness ==
    /\ Started
    /\ ~fwOptions.usePollingOnly
    /\ ~watcher
    /\ ~isWatcherHealthy
    /\ pollCalls >= 2
    /\ clock = pollStartedAt + fwOptions.pollInterval
    /\ delivered.poll = 1

\* caller c's step is the create-or-attach command of TmuxService:
\* createOrAttachSession, or createDetachedSession
CreateOrAttachStep(c) ==
    \/ callers[c].pc = "idle" /\ callers'[c].pc # "idle" /\ callers'[c].kind = "core"
    \/ callers[c].pc = "checked" /\ callers'[c].pc # "checked"

\* C12: every create-or-attach call for a session name succeeds and leaves a
\* session of that name; a call for a name that already has a session creates
\* nothing, so two calls in sequence for one name leave exactly the one
\* session the first of them created.
C12_CreateOrAttachTwiceOneSession ==
    [][\A c \in Callers :
          CreateOrAttachStep(c)
              => /\ callers'[c].failure = "none"
                 /\ callers'[c].sessionName \in tmuxSessions'
                 /\ sessionsCreated' =
                        sessionsCreated
                          + (IF callers'[c].sessionName \in tmuxSessions THEN 0 ELSE 1)
                 /\ tmuxSessions' = tmuxSessions \cup {callers'[c].sessionName}]_tmuxVars

\* both callers ran createOrAttachSession for the same name, the second
\* after the first: both succeeded and one session was created
C12_Witness ==
    /\ \A c \in Callers : callers[c].kind = "core" /\ callers[c].pc = "attached"
    /\ callers[1].sessionName = callers[2].sessionName
    /\ callers[1].creator /\ ~callers[2].creator
    /\ sessionsCreated = 1
    /\ tmuxSessions = {callers[1].sessionName}

\* C13: for any interleaving of callers that open the session of the same
\* agent, no caller's command fails because the session appeared after the
\* caller's existence check, no caller treats as newly created (sets up the
\* alias in) a session another caller created, and at most one session is
\* created per session that ended.
C13_CheckAndCreateAreAtomic ==
    /\ \A c \in Callers : callers[c].failure # "duplicate session"
    /\ \A c \in Callers : callers[c].alias => callers[c].creator
    /\ sessionsCreated <= sessionsKilled + 1

\* the user renamed the agent in this step
Renamed == tmuxAgent # NoPersistedAgent /\ tmuxAgent'.name # tmuxAgent.name

WrittenConfig(b) ==
    IF batches[b].options.containerConfigName = Null
    THEN "unisolated" ELSE batches[b].options.containerConfigName

\* the agents of call b whose metadata was written: those it returned, and
\* the one waiting for its container
Written(b) ==
    {batches[b].created[i] : i \in 1..Len(batches[b].created)}
      \cup (IF batches[b].pc = "container" THEN {batches[b].agent} ELSE {})

Deleted(name) == name \in worktrees /\ name \notin worktrees'

\* C16: a step that deletes one agent leaves every other agent as it was:
\* its worktree, its branch and its metadata file are untouched, and a scan
\* after the deletion enumerates it exactly when a scan before did, with the
\* same id, name and session identifier.
C16_DeleteLeavesOthersAlone ==
    [][\A name \in Names :
          Deleted(name)
              => \A other \in Names \ {name} :
                    /\ (other \in worktrees') = (other \in worktrees)
                    /\ (other \in branches') = (other \in branches)
                    /\ metadata'[other] = metadata[other]
                    /\ (other \in scanWorktreesForAgents')
                          = (other \in scanWorktreesForAgents)
                    /\ scanned(other)' = scanned(other)]_factoryVars

\* three agents were created and the middle one deleted: the first and the
\* third are enumerated with the ids they were given
C16_Witness ==
    /\ scanWorktreesForAgents = {NamePool[1], NamePool[3]}
    /\ NamePool[2] \notin branches
    /\ scanned(NamePool[1]).id = 1
    /\ scanned(NamePool[3]).id = 3
    /\ Len(batches[1].created) = 3

repositoryVars == <<gitVars, worktrees, branches, metadata>>

\* this step is an attempt of a removeWorktree or deleteBranch call
RemovalStep ==
    gitCall' # gitCall /\ gitCall'.op \in {"removeWorktree", "deleteBranch"}

\* what the removal call of this step is to remove is not there before it
AlreadyGone ==
    IF gitCall'.op = "removeWorktree" THEN gitCall'.name \notin worktrees
                                       ELSE gitCall'.name \notin branches

\* C17: a removeWorktree or deleteBranch call returns to its caller without
\* a fault whatever git did; it removes nothing but its own worktree or
\* branch; and called for a worktree or branch that is already gone it leaves
\* the repository exactly as it was, so repeated calls end in the state the
\* first successful one left.
C17_RemovalIsIdempotent ==
    [][RemovalStep =>
          /\ gitCall'.state = "returned"
          /\ worktrees' \in {worktrees, worktrees \ {gitCall'.name}}
          /\ branches' \in {branches, branches \ {gitCall'.name}}
          /\ AlreadyGone => /\ worktrees' = worktrees
                            /\ branches' = branches
                            /\ metadata' = metadata]_repositoryVars

\* removeWorktree was called again for a worktree that an earlier call had
\* removed (its branch is still there): git failed and the call returned
C17_Witness ==
    /\ gitCall.op = "removeWorktree"
    /\ gitCall.state = "returned"
    /\ gitCall.failed
    /\ gitCall.name \notin worktrees
    /\ gitCall.name \in branches

\* the position of a name in the pool
PoolIndex(name) == CHOOSE i \in 1..Len(NamePool) : NamePool[i] = name

\* call b went through one name of its list in this step, from the top of
\* createSingleAgent
Processing(b) ==
    \/ batches[b].pc = "loop" /\ batches'[b].index = batches[b].index + 1
    \/ batches[b].pc = "idle" /\ batches'[b].index = 2
    \/ batches[b].pc \in {"idle", "loop"} /\ batches'[b].pc = "container"

\* the name call b went through
Processed(b) ==
    IF batches'[b].pc = "container" THEN batches'[b].agent.name
    ELSE batches'[b].availableNames[batches'[b].index - 1]

\* C18: when batch creation comes to a name whose worktree is on disk, it
\* counts the name as skipped and leaves worktree, branch and metadata as
\* they are; no step of the factory rewrites the metadata of a worktree that
\* stays; a worktree it creates is at a pool name that no existing agent
\* had; and the agents a call created are in pool order.
C18_ExistingWorktreeIsSkipped ==
    /\ [][/\ \A b \in Batches :
                (Processing(b) /\ Processed(b) \in worktrees)
                    => /\ batches'[b].skipped
                            = (IF batches[b].pc = "idle" THEN 0 ELSE batches[b].skipped) + 1
                       /\ batches'[b].pc # "container"
                       /\ Len(batches'[b].created)
                            = (IF batches[b].pc = "idle" THEN 0
                               ELSE Len(batches[b].created))
                       /\ UNCHANGED <<worktrees, branches, metadata>>
           /\ \A n \in Names :
                /\ (n \in worktrees /\ n \in worktrees') => metadata'[n] = metadata[n]
                /\ (n \notin worktrees /\ n \in worktrees')
                      => n \notin scanWorktreesForAgents]_factoryVars
    /\ [](\A b \in Batches : \A i, j \in 1..Len(batches[b].created) :
              i < j => PoolIndex(batches[b].created[i].name)
                          < PoolIndex(batches[b].created[j].name))

\* a call skipped the first pool name, whose worktree was on disk without
\* metadata, and created its agent at the second
C18_Witness ==
    /\ batches[1].skipped = 1
    /\ Len(batches[1].created) = 1
    /\ batches[1].created[1].name = NamePool[2]
    /\ NamePool[1] \in worktrees
    /\ NamePool[1] \notin scanWorktreesForAgents
    /\ batches[1].availableNames[1] = NamePool[1]

\* the call ended after a failed attempt: it threw, or it returned with the
\* error caught
EndedInFailure == gitCall.state \in {"returned", "threw"} /\ gitCall.failed

\* C19: a call of a mutating git operation (worktree create, worktree
\* remove, branch delete, branch rename, repository init, stage, commit) makes
\* at most 4 attempts, and it ends in failure only after it was retried 3
\* times, with waits of 500, 1000 and 2000 ms between the attempts.
C19_MutatingOperationsAreRetried ==
    gitCall.op \in MutatingOperations
        => /\ gitCall.attemptNumber <= RETRY_CONFIG.retries + 1
           /\ EndedInFailure
                => /\ gitCall.attemptNumber = RETRY_CONFIG.retries + 1
                   /\ gitCall.delays = <<500, 1000, 2000>>

\* C20: no call is blocked on a process that runs under no timeout: every
\* external command and every git call returns or fails within a bound.
C20_NoCallBlocksIndefinitely ==
    gitCall.state # "blocked"

\* the diff computation of id failed in the reconciliation of the last step
DiffFailed(id) == diffResults[id].outcome \in {"timeout", "error"}

\* C21: what the tracker receives for a diff computation that failed is never
\* what it receives for a computation that succeeded, an empty diff included,
\* so a failure cannot be taken for "nothing changed"
C21_FailureIsNotAnEmptyDiff ==
    \A id \in DiffAgentIds :
        DiffFailed(id) =>
            \A summary \in DiffSummaries :
                diffResults[id].received # getDiffStats(summary, "resolved")

\* C22: a diff reconciliation in which the computation for an agent fails
\* leaves the agent's stored diff statistics as they were and emits no
\* diff-changed event for it
C22_FailedDiffKeepsPreviousStats ==
    [][\A id \in DiffAgentIds :
          DiffFailed(id)' =>
              /\ diffAgents'[id] = diffAgents[id]
              /\ id \notin diffEvents']_vars

\* C23: a watcher constructed inside WSL by a caller that chose no mode is in
\* poll-only mode, and neither starts nor holds a native file-event
\* subscription
C23_WslDefaultsToPollOnly ==
    (fwOptions.constructed /\ fwOptions.inWsl /\ ~fwOptions.modeChosen) =>
        /\ fwOptions.usePollingOnly
        /\ starting = 0
        /\ ~watcherLive

\* the distinct paths of the native events that wait to be forwarded
Queued == {path \in Paths : pendingEvents[path] # "none"}

\* a step in which a native event arrived: the queue, its timer or the time
\* of the last event changed, and events wait afterwards
NativeEventStep ==
    /\ UNCHANGED _isRunning
    /\ Queued' # {}
    /\ \/ pendingEvents' # pendingEvents
       \/ debounceTimeout' # debounceTimeout
       \/ lastChokidarEventTime' # lastChokidarEventTime

\* C24: a native event is not forwarded at once: it joins the waiting events
\* and re-arms the one timer to the debounce delay from now; the waiting
\* events are forwarded only when that timer is due, all together, one
\* callback for each distinct path; and events never wait without the timer
C24_BurstsAreDebounced ==
    /\ [][/\ NativeEventStep =>
                /\ delivered'.native = 0
                /\ Queued \subseteq Queued'
                /\ debounceTimeout'.active
                /\ debounceTimeout'.due = clock + fwOptions.debounceMs
          /\ delivered'.native # 0 =>
                /\ delivered'.native = Cardinality(Queued)
                /\ Queued' = {}
                /\ debounceTimeout.active
                /\ clock >= debounceTimeout.due]_vars
    /\ [](Queued # {} => debounceTimeout.active /\ debounceTimeout.due >= clock)

\* a burst over both paths whose last event came later than the start of the
\* watcher has just been forwarded, one debounce delay after that event
C24_Witness ==
    /\ delivered.native = Cardinality(Paths)
    /\ lastChokidarEventTime >= 1
    /\ clock = lastChokidarEventTime + fwOptions.debounceMs
    /\ watcher

\* the signal file of id cannot be read
Unreadable(id) == tickFiles[id].kind = "unreadable"

C30_ApprovalPendingOnlyWhenGained ==
    [][tickReport'.ran =>
          \A id \in TickAgentIds :
              id \in tickReport'.approvalPending <=>
                  /\ tickAgents[id].pendingApproval = NoApproval
                  /\ tickAgents'[id].pendingApproval # NoApproval]_vars

\* the tick of the last step gave the first agent a pending approval, with
\* the event, and left the approval the second agent already had in place,
\* without one
C30_Witness ==
    /\ tickReport.ran
    /\ 1 \in tickReport.approvalPending
    /\ tickAgents[1].pendingApproval # NoApproval
    /\ tickAgents[2].pendingApproval # NoApproval
    /\ 2 \in tickReport.reconciled
    /\ 2 \notin tickReport.approvalPending

\* the pool names no existing agent holds
UnusedNames == Names \ scanWorktreesForAgents

\* the count a call that reached its loop was made with
Requested(b) == Len(batches[b].availableNames) + batches[b].shortfall

\* the call of b found its base branch and was short of names for its count
ShortOfNames(b) ==
    /\ getBaseBranch(batches[b].branchOutput) # Null
    /\ Len(batches[b].availableNames) < Requested(b)

CreatedLaterElsewhere ==
    {n \in scanWorktreesForAgents :
        scanned(n).sessionId > lastDeleted.at /\ n # lastDeleted.name}

\* C27: after an agent is deleted, no agent created later in a different
\* worktree holds the id or the session identifier of the deleted agent
C27_DeletedIdentityIsNotReassigned ==
    lastDeleted # NoDeleted =>
        \A n \in CreatedLaterElsewhere :
            /\ scanned(n).id # lastDeleted.id
            /\ scanned(n).sessionId # lastDeleted.sessionId

\* the ids the existing agents of the repository hold
HeldIds == {scanned(m).id : m \in scanWorktreesForAgents}

\* C28: an agent that a step creates gets the smallest positive integer
\* that no agent existing at that moment holds, the agents created earlier
\* in the same batch included
C28_NewAgentGetsSmallestUnusedId ==
    [][\A n \in Names :
          (n \notin scanWorktreesForAgents /\ n \in scanWorktreesForAgents') =>
              /\ loadAgentMetadata(metadata'[n]).id \notin HeldIds
              /\ \A smaller \in 1..(loadAgentMetadata(metadata'[n]).id - 1) :
                     smaller \in HeldIds]_vars

\* the names in the created list and in the errors list of a result
CreatedNames(b) == {batches[b].created[i].name : i \in 1..Len(batches[b].created)}

ErroredNames(b) == {batches[b].errors[i].name : i \in 1..Len(batches[b].errors)}

AllocatedNames(b) ==
    {batches[b].availableNames[i] : i \in 1..Len(batches[b].availableNames)}

\* C29: the result of a createAgents call that resolved its base branch
\* accounts for every allocated name once: created agents, the skipped count
\* and errors add up to the number of allocated names, and no name is both
\* created and errored or listed twice
C29_EveryAllocatedNameHasOneOutcome ==
    \A b \in Batches :
        (/\ batches[b].pc = "done"
         /\ getBaseBranch(batches[b].branchOutput) # Null) =>
            /\ Len(batches[b].created) + batches[b].skipped + Len(batches[b].errors)
                  = Len(batches[b].availableNames)
            /\ Cardinality(CreatedNames(b)) = Len(batches[b].created)
            /\ Cardinality(ErroredNames(b)) = Len(batches[b].errors)
            /\ CreatedNames(b) \cap ErroredNames(b) = {}
            /\ CreatedNames(b) \cup ErroredNames(b) \subseteq AllocatedNames(b)

\* a call for three agents ended with one name skipped, one errored and one
\* created
C29_Witness ==
    /\ batches[1].pc = "done"
    /\ Len(batches[1].availableNames) = 3
    /\ batches[1].skipped = 1
    /\ Len(batches[1].errors) = 1
    /\ Len(batches[1].created) = 1

\* C31: a status tick emits agent:statusChanged for an agent exactly when the
\* update it applies changes the agent's status, and the event carries the
\* status the agent had before the tick
C31_StatusChangedOnlyOnChange ==
    [][tickReport'.ran =>
          \A id \in TickAgentIds :
              /\ id \in tickReport'.statusChanged <=>
                    tickAgents'[id].status # tickAgents[id].status
              /\ id \in tickReport'.statusChanged =>
                    tickReport'.previousStatus[id] = tickAgents[id].status]_vars

\* the tick of the last step moved the first agent from idle to working,
\* with the event, and applied to the second agent the status it already
\* had, without one
C31_Witness ==
    /\ tickReport.ran
    /\ 1 \in tickReport.statusChanged
    /\ tickReport.previousStatus[1] = "idle"
    /\ tickAgents[1].status = "working"
    /\ 2 \in tickReport.reconciled
    /\ 2 \notin tickReport.statusChanged
    /\ checkStatus(tickFiles[2]).found
    /\ tickAgents[2].status = checkStatus(tickFiles[2]).status

\* C32: a step emits agent:diffStatsChanged for an agent exactly when it
\* changes the agent's stored insertions, deletions or files-changed value,
\* also when diff reconciliations of the agent overlap
C32_DiffChangedOnlyOnChange ==
    [][\A id \in DiffAgentIds :
          id \in diffEvents' <=> diffStatsChanged(diffAgents[id], diffAgents'[id])]_vars

\* C34: in every state, in the dashboard's agents and in the map the
\* tracker reconciles, an agent has a pending-approval description only
\* while its status is waiting-approval
C34_ApprovalOnlyWhileWaiting ==
    /\ \A id \in DOMAIN agents :
          agents[id].pendingApproval # NoApproval => agents[id].status = "waiting-approval"
    /\ \A id \in DOMAIN agentsMap :
          agentsMap[id].pendingApproval # NoApproval =>
              agentsMap[id].status = "waiting-approval"

\* an agent that was approved earlier waits for approval again after a tick
C34_Witness ==
    /\ ticked
    /\ 1 \in DOMAIN agents
    /\ response[1].given
    /\ agents[1].pendingApproval # NoApproval
    /\ agents[1].status = "waiting-approval"
    /\ agentsMap[1].pendingApproval # NoApproval

\* the icon of a status, with or without a live session handle
IconFor(status, terminal) ==
    IF status = "idle"
    THEN IF terminal THEN "circle-filled" ELSE "circle-outline"
    ELSE STATUS_ICONS[status]

\* C35: after a status tick the icon of every reconciled agent is the icon
\* of its current status and session handle, whatever icon it had before;
\* idle with a handle and idle without one have different icons
C35_IconFollowsStatusAndHandle ==
    /\ IconFor("idle", TRUE) # IconFor("idle", FALSE)
    /\ tickReport.ran =>
          \A id \in tickReport.reconciled :
              tickAgents[id].statusIcon =
                  IconFor(tickAgents[id].status, tickAgents[id].terminal)

\* a tick left an idle agent with a handle and an idle agent without one
\* with different icons
C35_Witness ==
    /\ tickReport.ran
    /\ tickReport.reconciled = TickAgentIds
    /\ tickAgents[1].status = "idle" /\ tickAgents[1].terminal
    /\ tickAgents[2].status = "idle" /\ ~tickAgents[2].terminal
    /\ tickAgents[1].statusIcon = "circle-filled"
    /\ tickAgents[2].statusIcon = "circle-outline"

\* C36: whenever stop() has returned and no start() was issued after it (the
\* watcher is constructed and not running), no poll, native or error
\* callback is delivered, no chokidar watcher is live, and no poll,
\* health-check or debounce timer is scheduled, with or without a handle
C36_StoppedWatcherIsQuiet ==
    (fwOptions.constructed /\ ~_isRunning) =>
        /\ delivered = NoDelivery
        /\ ~watcherLive
        /\ ~pollIntervalId.active
        /\ ~healthCheckIntervalId.active
        /\ ~debounceTimeout.active
        /\ orphans = << >>

\* timers that will run the callback of a polling loop: its interval and,
\* for the diff loop, the pending timeouts of deferred first polls
ActiveTimers(l) ==
    (IF pollingIntervals[l].active THEN 1 ELSE 0)
        + (IF l = "diff" THEN Len(timeouts) ELSE 0)

\* the step schedules a new interval for the loop (not the re-arming of the
\* one that fired)
IntervalScheduled(l) ==
    /\ pollingIntervals'[l].active
    /\ pollingIntervals'[l] # pollingIntervals[l]
    /\ pollingIntervals'[l] # rearm(l)[l]

C38_FailedCreationLeavesNoBareWorktree ==
    \A b \in Batches :
        batches[b].pc = "done" =>
            \A i \in 1..Len(batches[b].errors) :
                LET name == batches[b].errors[i].name
                IN  (name \in worktrees \/ name \in branches) => metadata[name].json

\* pool names whose worktree does not exist on disk
NamesWithoutWorktree == {n \in Names : ~worktreeExists(n)}

\* the number of agents a call asked for: the names it got and the names it
\* fell short of
RequestedCount(batch) == batch.shortfall + Len(batch.availableNames)

\* C39: a createAgents call that returns without any step failing (here: a
\* call that is served without suspending, so that the disk it started on is
\* the disk before the step) has created exactly min(N, number of pool names
\* whose worktree did not exist) agents
C39_CreatesMinOfRequestedAndFree ==
    [][\A b \in Batches :
          (/\ batches[b].pc = "idle"
           /\ batches'[b].pc = "done"
           /\ batches'[b].errors = << >>
           /\ batches'[b].threw = {})
              => Len(batches'[b].created) =
                     Min(RequestedCount(batches'[b]), Cardinality(NamesWithoutWorktree))]_vars

\* C40: when createAgents has returned, the metadata file in the worktree of
\* every created agent (that was not deleted since) holds the id, name,
\* session identifier and isolation-config name of the agent object in the
\* batch result; branch and worktree path are functions of the name
C40_MetadataMatchesReturnedAgent ==
    \A b \in Batches :
        batches[b].pc = "done" =>
            \A i \in 1..Len(batches[b].created) :
                LET agent == batches[b].created[i]
                IN  worktreeExists(agent.name) =>
                        /\ metadata[agent.name].json
                        /\ metadata[agent.name].id = agent.id
                        /\ metadata[agent.name].name = agent.name
                        /\ metadata[agent.name].sessionId = agent.sessionId
                        /\ metadata[agent.name].containerConfigName =
                              agent.containerConfigName

====
